---- MODULE Spec2Model ----
(***************************************************************************)
(* Model of the PiPiXia lowering engine (CodeGenerator) and of the code it *)
(* emits.  A program (parsed tree) is lowered by the recursive operators   *)
(* codegenStmt / codegenExpr into basic blocks of instructions, exactly as *)
(* the C++ handlers do with the IRBuilder; the emitted blocks are then run *)
(* one instruction per step on a small machine with a heap, stack slots,   *)
(* setjmp/longjmp buffers and an output stream.                            *)
(***************************************************************************)
EXTENDS Integers, Sequences, FiniteSets, TLC

VARIABLES prog, cg, rt, phase

vars == <<prog, cg, rt, phase>>

(***************************************************************************)
(* Bounds                                                                  *)
(***************************************************************************)
\* CodeGenConstants::EXCEPTION_MSG_BUFFER_SIZE: the bytes of __exception_msg
EXCEPTION_MSG_BUFFER_SIZE == 256

\* run-time steps a generated program may take before the run is cut off
MaxSteps == 40
\* evaluations of a loop condition that may come out true in one run
MaxIter == 2

(***************************************************************************)
(* Finite maps (std::map): functions whose DOMAIN is the key set           *)
(***************************************************************************)
EmptyMap == [x \in {} |-> 0]

Put(f, k, v) == [x \in (DOMAIN f) \cup {k} |-> IF x = k THEN v ELSE f[x]]

Del(f, k) == [x \in (DOMAIN f) \ {k} |-> f[x]]

Has(f, k) == k \in DOMAIN f

\* std::map::operator[] : inserts a value-initialised (null) entry when absent
Subscript(f, k) == IF k \in DOMAIN f THEN f ELSE Put(f, k, 0)

\* std::find / erase on a vector
RECURSIVE IndexOf(_, _, _)
IndexOf(s, x, i) ==
    IF i > Len(s) THEN 0
    ELSE IF s[i] = x THEN i ELSE IndexOf(s, x, i + 1)

RemoveAt(s, i) == [j \in 1..(Len(s) - 1) |-> IF j < i THEN s[j] ELSE s[j + 1]]

Last(s) == s[Len(s)]

Front(s) == SubSeq(s, 1, Len(s) - 1)

(***************************************************************************)
(* llvm::Value handles.  v: kind, n: id of the defining instruction (or the*)
(* constant), s: text of a global string, ptr: getType()->isPointerTy(),   *)
(* ty: getType() as one of "ptr", "i32", "double", "i1"                    *)
(***************************************************************************)
NoVal == [v |-> "null", n |-> 0, s |-> <<>>, ptr |-> FALSE, ty |-> "void"]

TypedVal(id, ty) ==
    [v |-> "inst", n |-> id, s |-> <<>>, ptr |-> (ty = "ptr"), ty |-> ty]

InstVal(id, isPtr) == TypedVal(id, IF isPtr THEN "ptr" ELSE "i32")

GlobalStr(txt) == [v |-> "gstr", n |-> 0, s |-> txt, ptr |-> TRUE, ty |-> "ptr"]

ConstInt(k) == [v |-> "cint", n |-> k, s |-> <<>>, ptr |-> FALSE, ty |-> "i32"]

\* ConstantFP of a whole number
ConstFP(k) == [v |-> "cfp", n |-> k, s |-> <<>>, ptr |-> FALSE, ty |-> "double"]

\* ConstantFP::getNaN
ConstNaN == [v |-> "cnan", n |-> 0, s |-> <<>>, ptr |-> FALSE, ty |-> "double"]

ExcMsgPtr == [v |-> "excmsg", n |-> 0, s |-> <<>>, ptr |-> TRUE, ty |-> "ptr"]

\* llvm::Argument number idx of the function being lowered
ArgVal(idx, ty) ==
    [v |-> "arg", n |-> idx, s |-> <<>>, ptr |-> (ty = "ptr"), ty |-> ty]

\* ConstantInt of an integer type other than i32 (bool and char literals,
\* getTrue / getFalse)
ConstIntOf(k, ty) == [v |-> "cint", n |-> k, s |-> <<>>, ptr |-> FALSE, ty |-> ty]

\* llvm::Constant::getNullValue(type)
NullValue(ty) ==
    CASE ty = "double" -> [v |-> "cfp", n |-> 0, s |-> <<>>, ptr |-> FALSE,
                           ty |-> "double"]
      [] ty = "ptr" -> [v |-> "cnull", n |-> 0, s |-> <<>>, ptr |-> TRUE,
                        ty |-> "ptr"]
      [] OTHER -> ConstIntOf(0, ty)

\* CodeGenerator::getType
getType(typeName) ==
    CASE typeName = "int" -> "i32"
      [] typeName = "double" -> "double"
      [] typeName = "bool" -> "i1"
      [] typeName = "char" -> "i8"
      [] typeName = "string" -> "ptr"
      [] OTHER -> "void"

(***************************************************************************)
(* Instructions.  op: opcode, res: id of the result (0 = none), args:      *)
(* operand values, tgt: successor blocks, aux: slot / callee / format,     *)
(* cases: the (constant, block) pairs of a switch                          *)
(***************************************************************************)
Ins(op, res, args, tgt, aux) ==
    [op |-> op, res |-> res, args |-> args, tgt |-> tgt, aux |-> aux,
     cases |-> <<>>]

Terminators == {"br", "condbr", "ret", "unreachable", "switch"}

(***************************************************************************)
(* IRBuilder / Module state inside the CodeGenerator                       *)
(***************************************************************************)
CodeGenerator ==
    [blocks |-> <<>>,                 \* every BasicBlock created so far
     cur |-> 0,                       \* builder insert block (0 = none)
     nid |-> 1,                       \* next instruction result id
     allocas |-> <<>>,                \* allocas so far: owning function, type,
                                      \* number of elements (0: not an array)
     globals |-> <<>>,                \* GlobalVariables: type and initialiser
     funcs |-> EmptyMap,              \* module->getFunction: name -> entry block
     currentFunction |-> "",
     namedValues |-> EmptyMap,
     variableTypes |-> EmptyMap,
     globalValues |-> EmptyMap,
     tempMemoryStack |-> <<>>,
     ownedStringMemory |-> EmptyMap,
     loopContextStack |-> <<>>,
     exceptionContextStack |-> <<>>,
     constructs |-> <<>>,
     loadedModules |-> {},
     moduleAliases |-> EmptyMap,      \* alias -> module name
     moduleFunctions |-> EmptyMap,    \* module name -> (name -> Function)
     moduleGlobals |-> EmptyMap,      \* module name -> (name -> GlobalVariable)
     lowered |-> <<>>,                \* history: <<module, declaration>> for
                                      \* every module declaration code was
                                      \* generated for
     errorCount |-> 0,
     warningCount |-> 0,
     diag |-> <<>>,                   \* messages written to std::cerr
     paramTypes |-> EmptyMap,         \* FunctionType::getParamType by name
     returnTypes |-> EmptyMap,        \* Function::getReturnType() by name
     globalInitializers |-> <<>>,     \* deferred: variable and initializer
     entered |-> <<>>]                \* history: the per-function tables as
                                      \* they were when the lowering of each
                                      \* function body started

\* BasicBlock::Create(context, label, fn)
NewBlockIn(c, fn, label) ==
    [c EXCEPT !.blocks = Append(@, [fn |-> fn, label |-> label, ins |-> <<>>])]

\* BasicBlock::Create in builder->GetInsertBlock()->getParent(), inserted at
\* creation or later with function->insert
NewBlock(c, label) == NewBlockIn(c, c.blocks[c.cur].fn, label)

NewBlockId(c) == Len(c.blocks) + 1

SetInsertPoint(c, b) == [c EXCEPT !.cur = b]

\* builder->Create...: append to the insert block
Emit(c, i) == [c EXCEPT !.blocks[c.cur].ins = Append(@, i)]

\* an instruction with a result: the result id is c.nid
EmitRes(c, op, args, aux) ==
    [Emit(c, Ins(op, c.nid, args, <<>>, aux)) EXCEPT !.nid = @ + 1]

\* builder->GetInsertBlock()->getTerminator() != nullptr
HasTerminator(c) ==
    LET b == c.blocks[c.cur].ins
    IN  Len(b) > 0 /\ b[Len(b)].op \in Terminators

CreateBr(c, b) == Emit(c, Ins("br", 0, <<>>, <<b>>, ""))

CreateCondBr(c, cond, bt, bf) == Emit(c, Ins("condbr", 0, <<cond>>, <<bt, bf>>, ""))

\* a message on std::cerr that does not touch errorCount
Cerr(c, msg) == [c EXCEPT !.diag = Append(@, msg)]

\* a message on std::cerr followed by errorCount++
CountedError(c, msg) == [Cerr(c, msg) EXCEPT !.errorCount = @ + 1]

(***************************************************************************)
(* Parsed tree (ExprNode / StmtNode variants used by the model)            *)
(***************************************************************************)
\* StringLiteralNode
StrLit(t) == [k |-> "str", t |-> t]

\* BinaryOpNode
BinOp(op, l, r) == [k |-> "bin", op |-> op, l |-> l, r |-> r]

Concat(l, r) == BinOp("+", l, r)

\* DoubleLiteralNode of a whole number
DoubleLit(n) == [k |-> "dbl", n |-> n]

\* ArrayAccessNode on an identifier
ArrayAccess(name, index) == [k |-> "index", name |-> name, index |-> index]

\* IdentifierNode
Ident(name) == [k |-> "id", name |-> name]

\* IntLiteralNode
IntLit(n) == [k |-> "int", n |-> n]

\* a comparison over integer variables; its run-time truth value is an input
Cmp == [k |-> "cmp"]

\* VarDeclNode (local) with its declared type and initialiser
Let(name, type, e) ==
    [k |-> "let", name |-> name, type |-> type, e |-> e, isConst |-> FALSE]

\* VarDeclNode of `const name: type = e`
Const(name, type, e) ==
    [k |-> "let", name |-> name, type |-> type, e |-> e, isConst |-> TRUE]

\* AssignmentNode with op "=" on an identifier
Assign(name, e) == [k |-> "assign", name |-> name, op |-> "=", e |-> e]

\* AssignmentNode with a compound operator on an identifier
OpAssign(name, op, e) == [k |-> "assign", name |-> name, op |-> op, e |-> e]

\* AssignmentNode whose target is an array element
ElemAssign(name, index, op, e) ==
    [k |-> "elemassign", name |-> name, index |-> index, op |-> op, e |-> e]

\* VarDeclNode of a one-dimensional array with an array literal
LetArray(name, type, size, elems) ==
    [k |-> "letarray", name |-> name, type |-> type, size |-> size,
     elems |-> elems]

\* ExprStmtNode holding the call print(e)
PrintStmt(e) == [k |-> "print", e |-> e]

BlockStmt(body) == [k |-> "block", body |-> body]

WhileStmt(cond, body) == [k |-> "while", cond |-> cond, body |-> body]

\* ForStmtNode: for variable in start..end body
ForStmt(variable, start, end, body) ==
    [k |-> "for", variable |-> variable, start |-> start, end |-> end,
     body |-> body]

\* IfStmtNode; els = <<>> stands for a missing else branch
IfStmt(cond, then, els, hasElse) ==
    [k |-> "if", cond |-> cond, then |-> then, els |-> els, hasElse |-> hasElse]

ThrowStmt(e) == [k |-> "throw", e |-> e]

TryCatch(body, var, handler) ==
    [k |-> "try", body |-> body, var |-> var, handler |-> handler]

\* ExprStmtNode holding a call of a user function without arguments
\* FunctionCallNode as a statement: f() has no object, M.f() has object M
CallStmt(fn) == [k |-> "call", fn |-> fn, object |-> "", args |-> <<>>]

QualifiedCall(object, fn) ==
    [k |-> "call", fn |-> fn, object |-> object, args |-> <<>>]

\* FunctionCallNode with arguments, as an expression or a statement
Call(fn, args) == [k |-> "call", fn |-> fn, object |-> "", args |-> args]

\* ReturnStmtNode; hasValue = FALSE stands for value == nullptr
ReturnStmt(e) == [k |-> "return", hasValue |-> TRUE, e |-> e]

ReturnVoid == [k |-> "return", hasValue |-> FALSE, e |-> <<>>]

ContinueStmt == [k |-> "continue"]

\* BoolLiteralNode / CharLiteralNode (the character by its code)
BoolLit(b) == [k |-> "bool", n |-> IF b THEN 1 ELSE 0]

CharLit(code) == [k |-> "char", n |-> code]

\* ImportNode: import moduleName [as alias]
Import(moduleName, alias) ==
    [k |-> "import", moduleName |-> moduleName, alias |-> alias]

BreakStmt == [k |-> "break"]

\* CaseNode: isDefault = TRUE stands for value == nullptr
CaseNode(isDefault, value, body) ==
    [isDefault |-> isDefault, value |-> value, body |-> body]

SwitchStmt(cond, caseList) == [k |-> "switch", cond |-> cond, caseList |-> caseList]

\* FunctionDeclNode; params: <<[name, type], ...>>
Function(name, params, returnType, body) ==
    [k |-> "func", name |-> name, body |-> body, params |-> params,
     returnType |-> returnType]

Param(name, type) == [name |-> name, type |-> type]

\* FunctionDeclNode without parameters and with return type void
FunctionDecl(name, body) == Function(name, <<>>, "void", body)

(***************************************************************************)
(* Temporary / owned string memory                                         *)
(***************************************************************************)
pushTempMemory(c, ptr) ==
    IF ptr = NoVal \/ ~ptr.ptr THEN c
    ELSE [c EXCEPT !.tempMemoryStack = Append(@, ptr)]

removeTempMemory(c, ptr) ==
    LET i == IndexOf(c.tempMemoryStack, ptr, 1)
    IN  IF ptr = NoVal \/ i = 0 THEN c
        ELSE [c EXCEPT !.tempMemoryStack = RemoveAt(@, i)]

\* the reverse loop of clearTempMemory: one free call per entry, last first
RECURSIVE FreeAllReverse(_, _)
FreeAllReverse(c, stack) ==
    IF stack = <<>> THEN c
    ELSE FreeAllReverse(Emit(c, Ins("free", 0, <<Last(stack)>>, <<>>, "")),
                        Front(stack))

clearTempMemory(c) ==
    IF c.tempMemoryStack = <<>> THEN c
    ELSE [FreeAllReverse(c, c.tempMemoryStack) EXCEPT !.tempMemoryStack = <<>>]

freeOwnedString(c, varName) ==
    IF ~Has(c.ownedStringMemory, varName) THEN c
    ELSE [Emit(c, Ins("free", 0, <<c.ownedStringMemory[varName]>>, <<>>, ""))
            EXCEPT !.ownedStringMemory = Del(@, varName)]

trackOwnedString(c, varName, ptr) ==
    IF ptr = NoVal \/ ~ptr.ptr THEN c
    ELSE LET c1 == freeOwnedString(c, varName)
         IN  [c1 EXCEPT !.ownedStringMemory = Put(@, varName, ptr)]

\* createEntryBlockAlloca(function, ...): a fresh stack slot in function's
\* entry block; the slot is named by its position in allocas
createEntryBlockAlloca(c, function, type, size) ==
    [c EXCEPT !.allocas = Append(@, [fn |-> function, ty |-> type,
                                     size |-> size])]

NextAlloca(c) == Len(c.allocas) + 1

InsertFunction(c) == c.blocks[c.cur].fn

(***************************************************************************)
(* Expression lowering                                                     *)
(***************************************************************************)
R(c, val) == [c |-> c, val |-> val]

codegenIdentifier(c, node) ==
    LET c1 == [c EXCEPT !.namedValues = Subscript(@, node.name)]
        alloca == c1.namedValues[node.name]
    IN  IF alloca # 0
        THEN R(EmitRes(c1, "load", <<>>, alloca),
               TypedVal(c1.nid, c1.allocas[alloca].ty))
        ELSE LET c2 == [c1 EXCEPT !.globalValues = Subscript(@, node.name)]
                 g == c2.globalValues[node.name]
             IN  IF g # 0
                 THEN R(EmitRes(c2, "gload", <<>>, g),
                        TypedVal(c2.nid, c2.globals[g].ty))
                 ELSE R(CountedError(c2, "Undefined variable"), NoVal)

RECURSIVE codegenExpr(_, _)
RECURSIVE codegenFunctionCall(_, _)

\* CreateSIToFP unless the value is a double already
ToDouble(c, value) ==
    IF value.ty = "double" THEN R(c, value)
    ELSE R(EmitRes(c, "sitofp", <<value>>, ""), TypedVal(c.nid, "double"))

\* CreateFPToSI to i32 when the value is a double
ToInt(c, value) ==
    IF value.ty # "double" THEN R(c, value)
    ELSE R(EmitRes(c, "fptosi", <<value>>, "i32"), TypedVal(c.nid, "i32"))

IntegerTypes == {"i1", "i8", "i32"}

\* getIntegerBitWidth
BitWidth(type) == CASE type = "i1" -> 1 [] type = "i8" -> 8 [] OTHER -> 32

\* a cast instruction op of value to type
Cast(c, op, value, type) ==
    R(EmitRes(c, op, <<value>>, type), TypedVal(c.nid, type))

\* convertToType with the double -> integer case converting straight to
\* the target type instead of going through i32
convertToTypeDirect(c, value, targetType) ==
    CASE value = NoVal -> R(c, value)
      [] value.ty = targetType -> R(c, value)
      [] value.ty \in IntegerTypes /\ targetType \in IntegerTypes ->
           IF BitWidth(value.ty) < BitWidth(targetType)
           THEN Cast(c, IF BitWidth(value.ty) \in {1, 8} THEN "zext" ELSE "sext",
                     value, targetType)
           ELSE Cast(c, "trunc", value, targetType)
      [] value.ty \in IntegerTypes /\ targetType = "double" ->
           Cast(c, IF BitWidth(value.ty) \in {1, 8} THEN "uitofp" ELSE "sitofp",
                value, "double")
      [] value.ty = "double" /\ targetType \in IntegerTypes ->
           Cast(c, "fptosi", value, targetType)
      [] OTHER -> R(c, value)

\* convertToType: integer <-> integer by zext (from i1 and i8), sext or
\* trunc; integer -> double by uitofp (from i1 and i8) or sitofp; double ->
\* integer by fptosi to i32, then converted again when the target is
\* narrower; pointers unchanged
RECURSIVE convertToType(_, _, _)
NarrowFromInt(ir, targetType) ==
    IF targetType = "i32" THEN ir ELSE convertToType(ir.c, ir.val, targetType)

convertToType(c, value, targetType) ==
    CASE value = NoVal -> R(c, value)
      [] value.ty = targetType -> R(c, value)
      [] value.ty \in IntegerTypes /\ targetType \in IntegerTypes ->
           IF BitWidth(value.ty) < BitWidth(targetType)
           THEN Cast(c, IF BitWidth(value.ty) \in {1, 8} THEN "zext" ELSE "sext",
                     value, targetType)
           ELSE Cast(c, "trunc", value, targetType)
      [] value.ty \in IntegerTypes /\ targetType = "double" ->
           Cast(c, IF BitWidth(value.ty) \in {1, 8} THEN "uitofp" ELSE "sitofp",
                value, "double")
      [] value.ty = "double" /\ targetType \in IntegerTypes ->
           NarrowFromInt(Cast(c, "fptosi", value, "i32"), targetType)
      [] OTHER -> R(c, value)

\* the guard both zero checks emit: compare the divisor with zero; on zero
\* print errorMsg and take 0 / NaN; otherwise compute; merge with a phi.
\* labels: names of the error, compute and merge blocks
GuardedOp(c, left, right, errorMsg, labels, isInteger, op) ==
    LET errorBB == NewBlockId(c)
        computeBB == errorBB + 1
        mergeBB == errorBB + 2
        c1 == NewBlock(NewBlock(NewBlock(c, labels[1]), labels[2]), labels[3])
        isZero == TypedVal(c1.nid, "i1")
        c2 == EmitRes(c1, IF isInteger THEN "icmpeq0" ELSE "fcmpoeq0",
                      <<right>>, "")
        c3 == SetInsertPoint(CreateCondBr(c2, isZero, errorBB, computeBB), errorBB)
        c4 == CreateBr(EmitRes(c3, "printf", <<>>, errorMsg), mergeBB)
        errorValue == IF isInteger THEN ConstInt(0) ELSE ConstNaN
        c5 == SetInsertPoint(c4, computeBB)
        result == TypedVal(c5.nid, IF isInteger THEN left.ty ELSE "double")
        c6 == CreateBr(EmitRes(c5, op, <<left, right>>, ""), mergeBB)
        c7 == SetInsertPoint(c6, mergeBB)
        phi == TypedVal(c7.nid, result.ty)
    IN  R([Emit(c7, Ins("phi", c7.nid, <<errorValue, result>>,
                        <<errorBB, computeBB>>, "")) EXCEPT !.nid = @ + 1],
          phi)

\* the division emitted without the zero test
createDivisionUnchecked(c, left, right, errorMsg, isIntegerDivision) ==
    R(EmitRes(c, IF isIntegerDivision THEN "sdiv" ELSE "fdiv",
              <<left, right>>, ""),
      TypedVal(c.nid, IF isIntegerDivision THEN left.ty ELSE "double"))

createDivisionWithZeroCheck(c, left, right, errorMsg, isIntegerDivision) ==
    GuardedOp(c, left, right, errorMsg,
              <<"div_error", "div_compute", "div_merge">>, isIntegerDivision,
              IF isIntegerDivision THEN "sdiv" ELSE "fdiv")

createModuloWithZeroCheck(c, left, right, errorMsg) ==
    GuardedOp(c, left, right, errorMsg,
              <<"mod_error", "mod_compute", "mod_merge">>, right.ty # "double",
              IF right.ty = "double" THEN "frem" ELSE "srem")

\* the string concatenation branch of codegenBinaryOp
StringConcat(c, left, right) ==
    LET c1 == EmitRes(c, "strlen", <<left>>, "")
        c2 == EmitRes(c1, "strlen", <<right>>, "")
        newStr == InstVal(c2.nid, TRUE)
        c3 == EmitRes(c2, "malloc", <<>>, "")
        c4 == Emit(c3, Ins("strcpy", 0, <<newStr, left>>, <<>>, ""))
        c5 == Emit(c4, Ins("strcat", 0, <<newStr, right>>, <<>>, ""))
    IN  R(pushTempMemory(c5, newStr), newStr)

\* the operator switch of codegenBinaryOp on the promoted operands
BinaryOperator(c0, left, right, op) ==
    IF op = "+" /\ left.ptr /\ right.ptr
    THEN StringConcat(c0, left, right)
    ELSE CASE op = "+" ->
                R(EmitRes(c0, IF left.ty = "double" THEN "fadd" ELSE "add",
                          <<left, right>>, ""),
                  TypedVal(c0.nid, left.ty))
           [] op = "-" ->
                R(EmitRes(c0, IF left.ty = "double" THEN "fsub" ELSE "sub",
                          <<left, right>>, ""),
                  TypedVal(c0.nid, left.ty))
           [] op = "/" ->
                LET dl == ToDouble(c0, left)
                    dr == ToDouble(dl.c, right)
                IN  createDivisionWithZeroCheck(dr.c, dl.val, dr.val,
                        "Runtime Error: Division by zero\n", FALSE)
           [] op = "//" ->
                LET il == ToInt(c0, left)
                    ir == ToInt(il.c, right)
                IN  createDivisionWithZeroCheck(ir.c, il.val, ir.val,
                        "Runtime Error: Integer division by zero\n", TRUE)
           [] op = "%" ->
                createModuloWithZeroCheck(c0, left, right,
                        "Runtime Error: Modulo by zero\n")
           [] op \in {"==", "!="} ->
                R(EmitRes(c0, IF left.ty = "double"
                              THEN (IF op = "==" THEN "fcmpoeq" ELSE "fcmpone")
                              ELSE (IF op = "==" THEN "icmpeq" ELSE "icmpne"),
                          <<left, right>>, ""),
                  TypedVal(c0.nid, "i1"))
           [] OTHER -> R(c0, NoVal)

\* CreateZExt / CreateSExt of a value of type from to i32
Promote(c, value, from, op) ==
    IF value.ty = from THEN Cast(c, op, value, "i32") ELSE R(c, value)

\* both operands promoted (pl, then right): the operator
ApplyOperator(pl, right, op) == BinaryOperator(pl.c, pl.val, right, op)

\* int -> double of the left operand when the right one is a double
DoubleLeft(left, pr, op) ==
    ApplyOperator(IF pr.val.ty = "double" /\ left.ty = "i32"
                  THEN ToDouble(pr.c, left) ELSE R(pr.c, left),
                  pr.val, op)

\* int -> double of the right operand when the left one is a double
DoubleRight(left, r2, op) ==
    DoubleLeft(left,
               IF left.ty = "double" /\ r2.val.ty = "i32"
               THEN ToDouble(r2.c, r2.val) ELSE r2,
               op)

\* char -> int of the right operand
CharRight(l2, right, op) ==
    DoubleRight(l2.val, Promote(l2.c, right, "i8", "sext"), op)

\* char -> int of the left operand
CharLeft(left, r1, op) ==
    CharRight(Promote(r1.c, left, "i8", "sext"), r1.val, op)

\* bool -> int of the right operand
BoolRight(l1, right, op) ==
    CharLeft(l1.val, Promote(l1.c, right, "i1", "zext"), op)

\* codegenBinaryOp once both operands are lowered (lval, then rr): bool ->
\* int of both, char -> int of both, int -> double of the other operand
\* of a double, then the operator
PromoteOperands(lval, rr, op) ==
    IF lval = NoVal \/ rr.val = NoVal THEN R(rr.c, NoVal)
    ELSE BoolRight(Promote(rr.c, lval, "i1", "zext"), rr.val, op)

\* the right operand is lowered after the left one
RightOperand(lr, node) ==
    PromoteOperands(lr.val, codegenExpr(lr.c, node.r), node.op)

\* CreateICmpNE / CreateFCmpONE against zero unless the value is an i1
ToBool(c, value) ==
    IF value.ty = "i1" THEN R(c, value)
    ELSE R(EmitRes(c, IF value.ty = "double" THEN "fcmpone0" ELSE "icmpne0",
                   <<value>>, ""),
           TypedVal(c.nid, "i1"))

\* the merge block of codegenLogicalOp, the right operand lowered (rr) in
\* the rhs block: the phi takes the short-circuit constant from leftBB and
\* the right operand from the block the right operand ended in
LogicalMerge(rr, node, leftBB, mergeBB) ==
    IF rr.val = NoVal THEN R(rr.c, NoVal)
    ELSE LET rb == ToBool(rr.c, rr.val)
             rhsBB == rb.c.cur
             c3 == SetInsertPoint(CreateBr(rb.c, mergeBB), mergeBB)
             shortCircuit == ConstIntOf(IF node.op = "&&" THEN 0 ELSE 1, "i1")
         IN  R([Emit(c3, Ins("phi", c3.nid, <<shortCircuit, rb.val>>,
                             <<leftBB, rhsBB>>, "")) EXCEPT !.nid = @ + 1],
               TypedVal(c3.nid, "i1"))

\* codegenLogicalOp with the left operand lowered (lr): && evaluates the
\* right operand only when the left one is true, || only when it is false
LogicalRight(lr, node) ==
    IF lr.val = NoVal THEN R(lr.c, NoVal)
    ELSE LET lb == ToBool(lr.c, lr.val)
             leftBB == lb.c.cur
             rhsBB == NewBlockId(lb.c)
             mergeBB == rhsBB + 1
             c1 == NewBlock(NewBlock(lb.c, IF node.op = "&&" THEN "and_rhs"
                                           ELSE "or_rhs"),
                            IF node.op = "&&" THEN "and_merge" ELSE "or_merge")
             c2 == IF node.op = "&&"
                   THEN CreateCondBr(c1, lb.val, rhsBB, mergeBB)
                   ELSE CreateCondBr(c1, lb.val, mergeBB, rhsBB)
         IN  LogicalMerge(codegenExpr(SetInsertPoint(c2, rhsBB), node.r),
                          node, leftBB, mergeBB)

codegenLogicalOp(c, node) == LogicalRight(codegenExpr(c, node.l), node)

codegenBinaryOp(c, node) ==
    IF node.op \in {"&&", "||"} THEN codegenLogicalOp(c, node)
    ELSE RightOperand(codegenExpr(c, node.l), node)

\* codegenArrayAccess on a variable of array type, the index lowered (ir)
BoundsCheckedLoad(ir, node) ==
    LET index == ir.val
        c0 == ir.c
        arrayPtr == c0.namedValues[node.name]
        elementType == c0.allocas[arrayPtr].ty
        checkBB == NewBlockId(c0)
        errorBB == checkBB + 1
        accessBB == checkBB + 2
        mergeBB == checkBB + 3
        c1 == NewBlock(NewBlock(NewBlock(NewBlock(c0, "bounds_check"),
                                         "bounds_error"), "array_access"),
                       "bounds_merge")
        c2 == SetInsertPoint(CreateBr(c1, checkBB), checkBB)
        isNegative == TypedVal(c2.nid, "i1")
        c3 == EmitRes(c2, "icmpslt0", <<index>>, "")
        c4 == SetInsertPoint(CreateCondBr(c3, isNegative, errorBB, accessBB),
                             errorBB)
        c5 == CreateBr(EmitRes(c4, "printf", <<>>,
                               "Runtime Error: Array index out of bounds\n"),
                       mergeBB)
        defaultVal == IF elementType = "double" THEN ConstFP(0) ELSE ConstInt(0)
        c6 == SetInsertPoint(c5, accessBB)
        ptr == TypedVal(c6.nid, "ptr")
        c7 == EmitRes(c6, "gep", <<index>>, arrayPtr)
        loadedVal == TypedVal(c7.nid, elementType)
        c8 == EmitRes(c7, "loadp", <<ptr>>, "")
        c9 == SetInsertPoint(CreateBr(c8, mergeBB), mergeBB)
        phi == TypedVal(c9.nid, elementType)
    IN  IF index = NoVal THEN R(c0, NoVal)
        ELSE IF ~Has(c0.namedValues, node.name)
        THEN R(Cerr(c0, "Undefined array variable"), NoVal)
        ELSE R([Emit(c9, Ins("phi", c9.nid, <<defaultVal, loadedVal>>,
                             <<errorBB, accessBB>>, "")) EXCEPT !.nid = @ + 1],
               phi)

codegenArrayAccess(c, node) ==
    BoundsCheckedLoad(codegenExpr(c, node.index), node)

\* the test on c makes TLC finish the code before this expression first
codegenExpr(c, node) ==
    IF c.cur < 0 THEN R(c, NoVal) ELSE
    CASE node.k = "str" -> R(c, GlobalStr(node.t))
      [] node.k = "int" -> R(c, ConstInt(node.n))
      [] node.k = "dbl" -> R(c, ConstFP(node.n))
      [] node.k = "id"  -> codegenIdentifier(c, node)
      [] node.k = "bin" -> codegenBinaryOp(c, node)
      [] node.k = "index" -> codegenArrayAccess(c, node)
      [] node.k = "cmp" -> R(EmitRes(c, "icmp", <<>>, ""), TypedVal(c.nid, "i1"))
      [] node.k = "bool" -> R(c, ConstIntOf(node.n, "i1"))
      [] node.k = "char" -> R(c, ConstIntOf(node.n, "i8"))
      [] node.k = "call" -> codegenFunctionCall(c, node)
      [] OTHER -> R(Cerr(c, "Unknown expression node type"), NoVal)

(***************************************************************************)
(* Statement lowering                                                      *)
(***************************************************************************)
RECURSIVE codegenStmt(_, _)
RECURSIVE codegenBlock(_, _)

\* the ownership transfer shared by codegenVarDecl and codegenAssignment
TransferOwnership(c, varName, value) ==
    IF value.ptr /\ IndexOf(c.tempMemoryStack, value, 1) # 0
    THEN trackOwnedString(removeTempMemory(c, value), varName, value)
    ELSE c

\* element i of an array literal, lowered (er), stored at index i - 1
StoreElement(er, alloca, i) ==
    LET elemPtr == TypedVal(er.c.nid, "ptr")
        c1 == EmitRes(er.c, "gep", <<ConstInt(i - 1)>>, alloca)
    IN  IF er.val = NoVal THEN er.c
        ELSE Emit(c1, Ins("storep", 0, <<er.val, elemPtr>>, <<>>, ""))

\* the element loop of a one-dimensional array literal
RECURSIVE StoreElements(_, _, _, _)
StoreElements(c, node, alloca, i) ==
    IF i > Len(node.elems) \/ i > node.size THEN c
    ELSE StoreElements(StoreElement(codegenExpr(c, node.elems[i]), alloca, i),
                       node, alloca, i + 1)

\* the operators the constant folding of a global initializer knows
FoldedOperators == {"+", "-", "*", "/", "%"}

\* the folding of a binary operator on two integer literals, in the int
\* arithmetic of the compiler (a literal is never negative)
FoldInt(op, leftInt, rightInt) ==
    CASE op = "+" -> leftInt + rightInt
      [] op = "-" -> leftInt - rightInt
      [] op = "*" -> leftInt * rightInt
      [] op = "/" -> IF rightInt # 0 THEN leftInt \div rightInt ELSE 0
      [] op = "%" -> IF rightInt # 0 THEN leftInt % rightInt ELSE 0

\* llvm::ConstantInt::get(type, result): defined for the integer types only;
\* for any other type the constant that comes out is not of that type
ConstantIntGet(type, result) ==
    CASE type = "i1" -> ConstIntOf(result % 2, type)
      [] type = "i8" -> ConstIntOf(result % 256, type)
      [] OTHER -> ConstInt(result)

\* the initializer is a binary operator on two integer literals
FoldsIntegers(e) == e.k = "bin" /\ e.l.k = "int" /\ e.r.k = "int"

\* codegenVarDecl outside any function: a GlobalVariable with a literal
\* initialiser, a folded one, or one left to the global constructor
GlobalVarDecl(c, node) ==
    IF Has(c.globalValues, node.name)
    THEN Cerr(c, "Global variable is already defined")
    ELSE LET dynamic == \/ node.e.k \in {"id", "call"}
                        \/ /\ node.e.k = "bin"
                           /\ ~FoldsIntegers(node.e)
                           /\ ~(node.e.l.k = "dbl" /\ node.e.r.k = "dbl")
             unsupported == FoldsIntegers(node.e)
                                /\ node.e.op \notin FoldedOperators
             initVal == CASE node.e.k = "int" -> ConstInt(node.e.n)
                          [] node.e.k = "dbl" -> ConstFP(node.e.n)
                          [] node.e.k = "str" -> GlobalStr(node.e.t)
                          [] dynamic \/ unsupported ->
                               NullValue(getType(node.type))
                          [] FoldsIntegers(node.e) ->
                               ConstantIntGet(getType(node.type),
                                              FoldInt(node.e.op, node.e.l.n,
                                                      node.e.r.n))
                          [] OTHER -> NoVal
             globalVar == Len(c.globals) + 1
             c0 == IF unsupported
                   THEN Cerr(c, "Warning: Unsupported constant expression operator")
                   ELSE c
         IN  [c0 EXCEPT !.globals = Append(@, [ty |-> getType(node.type),
                                              init |-> initVal,
                                              isConstant |-> node.isConst]),
                       !.globalValues = Put(@, node.name, globalVar),
                       !.globalInitializers =
                           IF dynamic
                           THEN Append(@, [variable |-> globalVar,
                                           initializer |-> node.e])
                           ELSE @]

\* the initializer of a local, lowered (ir): converted to the declared
\* type and stored; a temporary string becomes owned by the variable
StoreInitializer(ir, node, type, alloca) ==
    LET cv == IF ir.val # NoVal /\ ir.val.ty # type
              THEN convertToType(ir.c, ir.val, type) ELSE ir
    IN  IF ir.val = NoVal THEN ir.c
        ELSE TransferOwnership(
                 Emit(cv.c, Ins("store", 0, <<cv.val>>, <<>>, alloca)),
                 node.name, cv.val)

\* the end of codegenVarDecl: the symbol tables, then clearTempMemory
RegisterLocal(c1, node, alloca) ==
    clearTempMemory([c1 EXCEPT !.namedValues = Put(@, node.name, alloca),
                               !.variableTypes = Put(@, node.name, node.type)])

\* codegenVarDecl inside a function, the alloca created (c0)
InitializeLocal(c0, node, type, alloca) ==
    RegisterLocal(IF node.k = "letarray"
                  THEN StoreElements(c0, node, alloca, 1)
                  ELSE StoreInitializer(codegenExpr(c0, node.e), node, type,
                                        alloca),
                  node, alloca)

codegenVarDecl(c, node) ==
    IF c.currentFunction = "" THEN GlobalVarDecl(c, node)
    ELSE IF Has(c.namedValues, node.name)
    THEN Cerr(c, "Local variable is already defined in this scope")
    ELSE InitializeLocal(
             createEntryBlockAlloca(c, c.currentFunction, getType(node.type),
                 IF node.k = "letarray" THEN node.size ELSE 0),
             node, getType(node.type), NextAlloca(c))

\* the compound operators of codegenAssignment on a local or global
\* variable: /= and %= guarded like the binary operators, //= ending the
\* program on a zero divisor
CompoundOp(c, oldVal, value0, op) ==
    LET cv == convertToType(c, value0, oldVal.ty)
        value == cv.val
        isFloat == oldVal.ty = "double"
    IN  CASE op = "+=" ->
               R(EmitRes(cv.c, IF isFloat THEN "fadd" ELSE "add",
                         <<oldVal, value>>, ""),
                 TypedVal(cv.c.nid, oldVal.ty))
          [] op = "/=" ->
               GuardedOp(cv.c, oldVal, value,
                         "Runtime Error: Division by zero in /= operator\n",
                         <<"divassign_error", "divassign_compute",
                           "divassign_merge">>,
                         ~isFloat, IF isFloat THEN "fdiv" ELSE "sdiv")
          [] op = "//=" ->
               LET il == ToInt(cv.c, oldVal)
                   ir == ToInt(il.c, value)
                   errorBB == NewBlockId(ir.c)
                   computeBB == errorBB + 1
                   c1 == NewBlock(NewBlock(ir.c, "floordivassign_error"),
                                  "floordivassign_compute")
                   isZero == TypedVal(c1.nid, "i1")
                   c2 == EmitRes(c1, "icmpeq0", <<ir.val>>, "")
                   c3 == SetInsertPoint(
                             CreateCondBr(c2, isZero, errorBB, computeBB), errorBB)
                   c4 == EmitRes(c3, "printf", <<>>,
                     "Runtime Error: Integer division by zero in //= operator\n")
                   c5 == Emit(Emit(c4, Ins("exit", 0, <<>>, <<>>, "")),
                              Ins("unreachable", 0, <<>>, <<>>, ""))
                   c6 == SetInsertPoint(c5, computeBB)
               IN  R(EmitRes(c6, "sdiv", <<il.val, ir.val>>, ""),
                     TypedVal(c6.nid, "i32"))
          [] op = "%=" ->
               GuardedOp(cv.c, oldVal, value,
                         "Runtime Error: Modulo by zero in %= operator\n",
                         <<"modassign_error", "modassign_compute",
                           "modassign_merge">>,
                         ~isFloat, IF isFloat THEN "frem" ELSE "srem")
          [] OTHER -> R(cv.c, value)

\* the compound operators of codegenAssignment on an array element
ElementCompoundOp(c, oldVal, value0, op) ==
    LET cv == convertToType(c, value0, oldVal.ty)
        value == cv.val
        isFloat == oldVal.ty = "double"
        il == ToInt(cv.c, oldVal)
        ir == ToInt(il.c, value)
    IN  CASE op = "+=" ->
               R(EmitRes(cv.c, IF isFloat THEN "fadd" ELSE "add",
                         <<oldVal, value>>, ""),
                 TypedVal(cv.c.nid, oldVal.ty))
          [] op = "/=" ->
               R(EmitRes(cv.c, IF isFloat THEN "fdiv" ELSE "sdiv",
                         <<oldVal, value>>, ""),
                 TypedVal(cv.c.nid, oldVal.ty))
          [] op = "//=" ->
               R(EmitRes(ir.c, "sdiv", <<il.val, ir.val>>, ""),
                 TypedVal(ir.c.nid, "i32"))
          [] op = "%=" ->
               R(EmitRes(cv.c, IF isFloat THEN "frem" ELSE "srem",
                         <<oldVal, value>>, ""),
                 TypedVal(cv.c.nid, oldVal.ty))
          [] OTHER -> R(cv.c, value)

\* the store that ends an array element assignment: the value (cr)
\* converted to the element type and stored through ptr
StoreElementValue(cr, elementType, ptr) ==
    LET fr == IF cr.val.ty # elementType
              THEN convertToType(cr.c, cr.val, elementType) ELSE cr
    IN  Emit(fr.c, Ins("storep", 0, <<fr.val, ptr>>, <<>>, ""))

\* an array element assignment with index (ir) and value (vr) lowered: the
\* GEP on the index as it is, the compound operator on the loaded element
ElementStore(ir, vr, node) ==
    LET index == ir.val
        arrayPtr == ir.c.namedValues[node.name]
        elementType == ir.c.allocas[arrayPtr].ty
        ptr == TypedVal(vr.c.nid, "ptr")
        c1 == EmitRes(vr.c, "gep", <<index>>, arrayPtr)
        oldVal == TypedVal(c1.nid, elementType)
    IN  IF index = NoVal THEN Cerr(ir.c, "Invalid index in array assignment")
        ELSE IF ~Has(ir.c.namedValues, node.name)
        THEN Cerr(ir.c, "Undefined array variable")
        ELSE IF vr.val = NoVal
        THEN Cerr(vr.c, "Invalid assignment value for array element")
        ELSE StoreElementValue(
                 IF node.op = "=" THEN R(c1, vr.val)
                 ELSE ElementCompoundOp(EmitRes(c1, "loadp", <<ptr>>, ""),
                                        oldVal, vr.val, node.op),
                 elementType, ptr)

\* the value is lowered after the index
ElementValue(ir, node) == ElementStore(ir, codegenExpr(ir.c, node.e), node)

\* codegenAssignment, target an element of a variable of array type
ElementAssignment(c, node) == ElementValue(codegenExpr(c, node.index), node)

\* the store into a global: the value leaves the temporaries, nothing is
\* tracked or released
StoreGlobal(cr, globalVar) ==
    LET c3 == Emit(cr.c, Ins("gstore", 0, <<cr.val>>, <<>>, globalVar))
    IN  IF cr.val.ptr THEN removeTempMemory(c3, cr.val) ELSE c3

\* the store into a local: ownership transfer, then clearTempMemory
StoreLocal(cr, alloca, name) ==
    clearTempMemory(
        TransferOwnership(Emit(cr.c, Ins("store", 0, <<cr.val>>, <<>>, alloca)),
                          name, cr.val))

\* assignment to the global globalVar, the value lowered (vr)
AssignGlobal(vr, globalVar, node) ==
    IF vr.val = NoVal THEN Cerr(vr.c, "Invalid assignment value")
    ELSE StoreGlobal(
             IF node.op = "=" THEN vr
             ELSE CompoundOp(EmitRes(vr.c, "gload", <<>>, globalVar),
                             TypedVal(vr.c.nid, vr.c.globals[globalVar].ty),
                             vr.val, node.op),
             globalVar)

\* assignment to the local alloca, the value lowered (vr)
AssignLocal(vr, alloca, node) ==
    IF vr.val = NoVal THEN Cerr(vr.c, "Invalid assignment value")
    ELSE StoreLocal(
             IF node.op = "=" THEN vr
             ELSE CompoundOp(EmitRes(vr.c, "load", <<>>, alloca),
                             TypedVal(vr.c.nid, vr.c.allocas[alloca].ty),
                             vr.val, node.op),
             alloca, node.name)

codegenAssignment(c, node) ==
    LET c1 == [c EXCEPT !.namedValues = Subscript(@, node.name)]
        alloca == c1.namedValues[node.name]
        c2 == [c1 EXCEPT !.globalValues = Subscript(@, node.name)]
        globalVar == c2.globalValues[node.name]
    IN  IF node.k = "elemassign" THEN ElementAssignment(c, node)
        ELSE IF alloca # 0
        THEN AssignLocal(codegenExpr(c1, node.e), alloca, node)
        ELSE IF globalVar = 0 THEN Cerr(c2, "Undefined variable")
        ELSE AssignGlobal(codegenExpr(c2, node.e), globalVar, node)

\* codegenFunctionCall for print(e): the format follows the argument type
PrintValue(ar) ==
    IF ar.val = NoVal THEN ar.c
    ELSE EmitRes(ar.c, "printf", <<ar.val>>,
                 CASE ar.val.ty = "double" -> "%f\n"
                   [] ar.val.ty = "ptr" -> "%s\n"
                   [] OTHER -> "%d\n")

codegenPrint(c, node) == PrintValue(codegenExpr(c, node.e))

\* 0 stands for nullptr; a Function is named by its entry block
findModuleFunction(c, moduleName, funcName) ==
    IF ~Has(c.moduleFunctions, moduleName) THEN 0
    ELSE IF ~Has(c.moduleFunctions[moduleName], funcName) THEN 0
    ELSE c.moduleFunctions[moduleName][funcName]

findModuleGlobal(c, moduleName, varName) ==
    IF ~Has(c.moduleGlobals, moduleName) THEN 0
    ELSE IF ~Has(c.moduleGlobals[moduleName], varName) THEN 0
    ELSE c.moduleGlobals[moduleName][varName]

\* the value of a CreateCall: "calltmp" unless the callee returns void
EmitCall(c, callee, args) ==
    IF c.returnTypes[callee] = "void"
    THEN R(Emit(c, Ins("call", 0, args, <<>>, callee)), TypedVal(0, "void"))
    ELSE R(EmitRes(c, "call", args, callee),
           TypedVal(c.nid, c.returnTypes[callee]))

RECURSIVE LowerArguments(_, _, _, _)

\* argument i of a call, lowered (ar): converted to the parameter type and
\* appended to args; ok = FALSE when codegenFunctionCall returns nullptr
NextArgument(ar, node, i, args) ==
    LET expectedType == ar.c.paramTypes[node.fn][i]
        cv == IF ar.val # NoVal /\ ar.val.ty # expectedType
              THEN convertToType(ar.c, ar.val, expectedType) ELSE ar
    IN  IF ar.val = NoVal THEN [c |-> ar.c, ok |-> FALSE, args |-> args]
        ELSE IF cv.val.ty # expectedType
        THEN [c |-> Cerr(cv.c, "Type mismatch for argument"), ok |-> FALSE,
              args |-> args]
        ELSE LowerArguments(cv.c, node, i + 1, Append(args, cv.val))

\* the argument loop of codegenFunctionCall (no array arguments)
LowerArguments(c, node, i, args) ==
    IF i > Len(node.args) THEN [c |-> c, ok |-> TRUE, args |-> args]
    ELSE NextArgument(codegenExpr(c, node.args[i]), node, i, args)

\* the call itself, the arguments lowered (la)
CallWith(la, node) ==
    IF la.ok THEN EmitCall(la.c, node.fn, la.args) ELSE R(la.c, NoVal)

RECURSIVE LowerModuleArguments(_, _, _, _, _)

\* argument i of a call of a module function, lowered (ar): converted to
\* the parameter type when the function has a parameter i, and appended
NextModuleArgument(ar, node, callee, i, args) ==
    LET cv == IF /\ ar.val # NoVal
                 /\ i <= Len(ar.c.paramTypes[callee])
                 /\ ar.val.ty # ar.c.paramTypes[callee][i]
              THEN convertToType(ar.c, ar.val, ar.c.paramTypes[callee][i])
              ELSE ar
    IN  IF ar.val = NoVal THEN [c |-> ar.c, ok |-> FALSE, args |-> args]
        ELSE LowerModuleArguments(cv.c, node, callee, i + 1,
                                  Append(args, cv.val))

\* the argument loop of a module call: it runs over the arguments given
LowerModuleArguments(c, node, callee, i, args) ==
    IF i > Len(node.args) THEN [c |-> c, ok |-> TRUE, args |-> args]
    ELSE NextModuleArgument(codegenExpr(c, node.args[i]), node, callee, i, args)

\* the call of a module function, the arguments lowered (la)
ModuleCallWith(la, callee) ==
    IF la.ok THEN EmitCall(la.c, callee, la.args) ELSE R(la.c, NoVal)

codegenFunctionCall(c, node) ==
    IF node.object # ""
    THEN LET moduleName == IF Has(c.moduleAliases, node.object)
                           THEN c.moduleAliases[node.object] ELSE node.object
             moduleFunc == findModuleFunction(c, moduleName, node.fn)
         IN  IF moduleFunc # 0
             THEN ModuleCallWith(
                      LowerModuleArguments(c, node, c.blocks[moduleFunc].fn,
                                           1, <<>>),
                      c.blocks[moduleFunc].fn)
             ELSE R(Cerr(c, "Function not found in module"), NoVal)
    ELSE IF ~Has(c.funcs, node.fn) THEN R(Cerr(c, "Unknown function"), NoVal)
    ELSE IF Len(c.paramTypes[node.fn]) # Len(node.args)
    THEN R(Cerr(c, "Function expects a different number of arguments"), NoVal)
    ELSE CallWith(LowerArguments(c, node, 1, <<>>), node)

codegenExprStmt(c, node) ==
    clearTempMemory(IF node.k = "print" THEN codegenPrint(c, node)
                    ELSE codegenFunctionCall(c, node).c)

\* CreateBr unless the insert block already has a terminator
BrUnlessTerminated(c, b) == IF HasTerminator(c) THEN c ELSE CreateBr(c, b)

\* the end of codegenIfStmt, both branches emitted (c7)
IfMerge(thenHasTerminator, c7, node, mergeBB) ==
    LET elseHasTerminator == node.hasElse /\ HasTerminator(c7)
        c8 == IF node.hasElse /\ ~elseHasTerminator THEN CreateBr(c7, mergeBB)
              ELSE c7
        needMergeBB == ~thenHasTerminator \/ ~node.hasElse \/ ~elseHasTerminator
        c9 == SetInsertPoint(c8, mergeBB)
    IN  IF needMergeBB THEN c9
        ELSE Emit(c9, Ins("unreachable", 0, <<>>, <<>>, ""))

\* the else branch of codegenIfStmt, the then branch emitted (c5)
IfElse(c5, node, elseBB, mergeBB) ==
    IfMerge(HasTerminator(c5),
            IF node.hasElse
            THEN codegenStmt(SetInsertPoint(BrUnlessTerminated(c5, mergeBB),
                                            elseBB),
                             BlockStmt(node.els))
            ELSE BrUnlessTerminated(c5, mergeBB),
            node, mergeBB)

\* codegenIfStmt with the condition lowered (cr)
IfThen(cr, node) ==
    LET thenBB == NewBlockId(cr.c)
        elseBB == IF node.hasElse THEN thenBB + 1 ELSE 0
        mergeBB == IF node.hasElse THEN thenBB + 2 ELSE thenBB + 1
        c1 == NewBlock(cr.c, "then")
        c2 == IF node.hasElse THEN NewBlock(c1, "else") ELSE c1
        c3 == NewBlock(c2, "ifcont")
        c4 == CreateCondBr(c3, cr.val, thenBB,
                           IF node.hasElse THEN elseBB ELSE mergeBB)
    IN  IF cr.val = NoVal THEN cr.c
        ELSE IfElse(codegenStmt(SetInsertPoint(c4, thenBB), BlockStmt(node.then)),
                    node, elseBB, mergeBB)

codegenIfStmt(c, node) == IfThen(codegenExpr(c, node.cond), node)

\* the end of codegenWhileStmt, the body emitted (c5)
WhileEnd(c5, condBB, afterBB) ==
    [SetInsertPoint(IF HasTerminator(c5) THEN c5
                    ELSE CreateBr(clearTempMemory(c5), condBB),
                    afterBB)
        EXCEPT !.loopContextStack = Front(@)]

\* WhileBody without the pop_back on the path that gives the loop up
WhileBodyKeepsContext(cr, node, condBB, bodyBB, afterBB) ==
    IF cr.val = NoVal THEN cr.c
    ELSE WhileEnd(
             codegenStmt(
                 SetInsertPoint(CreateCondBr(clearTempMemory(cr.c), cr.val,
                                             bodyBB, afterBB),
                                bodyBB),
                 BlockStmt(node.body)),
             condBB, afterBB)

\* codegenWhileStmt with the condition lowered (cr) in the condition block
WhileBody(cr, node, condBB, bodyBB, afterBB) ==
    IF cr.val = NoVal THEN [cr.c EXCEPT !.loopContextStack = Front(@)]
    ELSE WhileEnd(
             codegenStmt(
                 SetInsertPoint(CreateCondBr(clearTempMemory(cr.c), cr.val,
                                             bodyBB, afterBB),
                                bodyBB),
                 BlockStmt(node.body)),
             condBB, afterBB)

codegenWhileStmt(c, node) ==
    LET condBB == NewBlockId(c)
        bodyBB == condBB + 1
        afterBB == condBB + 2
        c1 == NewBlock(NewBlock(NewBlock(c, "whilecond"), "whilebody"),
                       "afterwhile")
        c2 == [c1 EXCEPT !.loopContextStack =
                   Append(@, [continueBlock |-> condBB, breakBlock |-> afterBB])]
        c3 == SetInsertPoint(CreateBr(c2, condBB), condBB)
    IN  WhileBody(codegenExpr(c3, node.cond), node, condBB, bodyBB, afterBB)

\* the end of codegenForStmt, the body emitted (c5): the increment block
\* adds one to the value loaded in the condition block; the loop variable
\* leaves the symbol table
ForEnd(c5, node, loopVar, currentVal, condBB, incrBB, afterBB) ==
    LET c6 == clearTempMemory(SetInsertPoint(BrUnlessTerminated(c5, incrBB),
                                             incrBB))
        nextVal == InstVal(c6.nid, FALSE)
        c7 == EmitRes(c6, "add", <<currentVal, ConstInt(1)>>, "")
        c8 == CreateBr(Emit(c7, Ins("store", 0, <<nextVal>>, <<>>, loopVar)),
                       condBB)
    IN  [SetInsertPoint(c8, afterBB)
            EXCEPT !.loopContextStack = Front(@),
                   !.namedValues = Del(@, node.variable)]

\* ForLoop with a condition block that reads an end expression that is a
\* local variable from the slot of that variable, on every iteration
ForLoopReadsEndVariable(er, node, loopVar) ==
    LET endVar == NextAlloca(er.c)
        c1 == clearTempMemory(
                  Emit(createEntryBlockAlloca(er.c, InsertFunction(er.c),
                                              "i32", 0),
                       Ins("store", 0, <<er.val>>, <<>>, endVar)))
        condBB == NewBlockId(c1)
        bodyBB == condBB + 1
        incrBB == condBB + 2
        afterBB == condBB + 3
        c2 == NewBlock(NewBlock(NewBlock(NewBlock(c1, "forcond"), "forbody"),
                                "forincr"),
                       "afterfor")
        c3 == [c2 EXCEPT !.loopContextStack =
                   Append(@, [continueBlock |-> incrBB, breakBlock |-> afterBB])]
        c4 == SetInsertPoint(CreateBr(c3, condBB), condBB)
        currentVal == InstVal(c4.nid, FALSE)
        c5 == EmitRes(c4, "load", <<>>, loopVar)
        loadedEndVal == InstVal(c5.nid, FALSE)
        c6 == EmitRes(c5, "load", <<>>,
                      IF node.end.k = "id" /\ Has(er.c.namedValues, node.end.name)
                      THEN er.c.namedValues[node.end.name] ELSE endVar)
        condVal == TypedVal(c6.nid, "i1")
        c7 == EmitRes(c6, "icmpslt", <<currentVal, loadedEndVal>>, "")
        c8 == SetInsertPoint(CreateCondBr(c7, condVal, bodyBB, afterBB), bodyBB)
    IN  ForEnd(codegenStmt(c8, BlockStmt(node.body)), node, loopVar,
               currentVal, condBB, incrBB, afterBB)

\* codegenForStmt with the end value lowered (er): the end value is stored
\* in a slot of its own, the condition block compares the two slots
ForLoop(er, node, loopVar) ==
    LET endVar == NextAlloca(er.c)
        c1 == clearTempMemory(
                  Emit(createEntryBlockAlloca(er.c, InsertFunction(er.c),
                                              "i32", 0),
                       Ins("store", 0, <<er.val>>, <<>>, endVar)))
        condBB == NewBlockId(c1)
        bodyBB == condBB + 1
        incrBB == condBB + 2
        afterBB == condBB + 3
        c2 == NewBlock(NewBlock(NewBlock(NewBlock(c1, "forcond"), "forbody"),
                                "forincr"),
                       "afterfor")
        c3 == [c2 EXCEPT !.loopContextStack =
                   Append(@, [continueBlock |-> incrBB, breakBlock |-> afterBB])]
        c4 == SetInsertPoint(CreateBr(c3, condBB), condBB)
        currentVal == InstVal(c4.nid, FALSE)
        c5 == EmitRes(c4, "load", <<>>, loopVar)
        loadedEndVal == InstVal(c5.nid, FALSE)
        c6 == EmitRes(c5, "load", <<>>, endVar)
        condVal == TypedVal(c6.nid, "i1")
        c7 == EmitRes(c6, "icmpslt", <<currentVal, loadedEndVal>>, "")
        c8 == SetInsertPoint(CreateCondBr(c7, condVal, bodyBB, afterBB), bodyBB)
    IN  ForEnd(codegenStmt(c8, BlockStmt(node.body)), node, loopVar,
               currentVal, condBB, incrBB, afterBB)

\* codegenForStmt with the start value lowered (sr)
ForEndValue(sr, node, loopVar) ==
    ForLoop(codegenExpr(
                clearTempMemory(Emit(sr.c, Ins("store", 0, <<sr.val>>, <<>>,
                                               loopVar))),
                node.end),
            node, loopVar)

codegenForStmt(c, node) ==
    IF Has(c.namedValues, node.variable)
    THEN Cerr(c, "For loop variable shadows an existing local variable")
    ELSE LET loopVar == NextAlloca(c)
             c1 == [createEntryBlockAlloca(c, InsertFunction(c), "i32", 0)
                       EXCEPT !.namedValues = Put(@, node.variable, loopVar)]
         IN  ForEndValue(codegenExpr(c1, node.start), node, loopVar)

\* codegenReturnStmt with the returned expression lowered (rr)
ReturnValue(rr) ==
    LET expectedRetType == rr.c.returnTypes[rr.c.currentFunction]
        cv == IF rr.val # NoVal /\ rr.val.ty # expectedRetType
              THEN convertToType(rr.c, rr.val, expectedRetType) ELSE rr
        c1 == IF cv.val.ty # expectedRetType
              THEN Cerr(cv.c, "Warning: Return type mismatch") ELSE cv.c
        c2 == IF cv.val.ptr THEN removeTempMemory(c1, cv.val) ELSE c1
    IN  IF rr.val = NoVal THEN Cerr(rr.c, "Invalid return value")
        ELSE IF rr.val.ty # expectedRetType /\ expectedRetType = "void"
        THEN Cerr(rr.c, "Cannot return a value from void function")
        ELSE Emit(clearTempMemory(c2), Ins("ret", 0, <<cv.val>>, <<>>, ""))

codegenReturnStmt(c, node) ==
    IF node.hasValue THEN ReturnValue(codegenExpr(c, node.e))
    ELSE Emit(clearTempMemory(
                  IF c.currentFunction # ""
                     /\ c.returnTypes[c.currentFunction] # "void"
                  THEN Cerr(c, "Warning: Empty return in non-void function")
                  ELSE c),
              Ins("ret", 0, <<>>, <<>>, ""))

codegenContinueStmt(c, node) ==
    IF c.loopContextStack = <<>>
    THEN Cerr(c, "'continue' statement not in loop")
    ELSE LET c1 == CreateBr(clearTempMemory(c),
                            Last(c.loopContextStack).continueBlock)
         IN  SetInsertPoint(NewBlock(c1, "after_continue"), NewBlockId(c1))

codegenBreakStmt(c, node) ==
    IF c.loopContextStack = <<>>
    THEN Cerr(c, "'break' statement not in loop or switch")
    ELSE LET c1 == CreateBr(clearTempMemory(c),
                            Last(c.loopContextStack).breakBlock)
         IN  SetInsertPoint(NewBlock(c1, "after_break"), NewBlockId(c1))

\* the end of codegenTryCatch, the catch body emitted (c9): the catch
\* variable leaves scope, and only now the try context is popped
TryCatchEnd(c9, node, afterBB) ==
    LET c10 == IF node.var = "" THEN c9
               ELSE [c9 EXCEPT !.namedValues = Del(@, node.var)]
    IN  [SetInsertPoint(BrUnlessTerminated(c10, afterBB), afterBB)
            EXCEPT !.exceptionContextStack = Front(@)]

\* the catch block of codegenTryCatch, the try body emitted (c6)
CatchBlock(c6, node, function, catchBB, afterBB) ==
    LET c7 == SetInsertPoint(BrUnlessTerminated(c6, afterBB), catchBB)
        exceptionVarAlloca == NextAlloca(c7)
        c8 == IF node.var = "" THEN c7
              ELSE [Emit(createEntryBlockAlloca(c7, function, "ptr", 0),
                         Ins("store", 0, <<ExcMsgPtr>>, <<>>, exceptionVarAlloca))
                      EXCEPT !.namedValues = Put(@, node.var, exceptionVarAlloca)]
    IN  TryCatchEnd(codegenStmt(c8, BlockStmt(node.handler)), node, afterBB)

codegenTryCatch(c, node) ==
    LET jmpBuf == NextAlloca(c)
        c1 == [createEntryBlockAlloca(c, InsertFunction(c), "jmp_buf", 0) EXCEPT
                   !.exceptionContextStack = Append(@, jmpBuf)]
        setjmpResult == InstVal(c1.nid, FALSE)
        c2 == EmitRes(c1, "setjmp", <<>>, jmpBuf)
        isNormalPath == InstVal(c2.nid, FALSE)
        c3 == EmitRes(c2, "icmpeq0", <<setjmpResult>>, "")
        tryBB == NewBlockId(c3)
        catchBB == tryBB + 1
        afterBB == tryBB + 2
        c4 == NewBlock(NewBlock(NewBlock(c3, "try_block"), "catch_block"),
                       "after_try_catch")
        c5 == CreateCondBr(c4, isNormalPath, tryBB, catchBB)
    IN  CatchBlock(codegenStmt(SetInsertPoint(c5, tryBB), BlockStmt(node.body)),
                   node, InsertFunction(c), catchBB, afterBB)

\* convertToString for a non-pointer value: malloc(64) + sprintf, tracked as
\* a temporary
convertToString(c, value) ==
    LET buffer == InstVal(c.nid, TRUE)
        c1 == EmitRes(c, "malloc", <<>>, "")
        c2 == Emit(c1, Ins("sprintf", 0, <<buffer, value>>, <<>>, ""))
    IN  IF value.ptr THEN R(c, value) ELSE R(pushTempMemory(c2, buffer), buffer)

\* codegenThrow with the thrown expression lowered (er)
ThrowValue(er) ==
    LET mr == IF er.val = NoVal THEN R(er.c, GlobalStr(<<"Exception thrown">>))
              ELSE IF er.val.ptr THEN er
              ELSE convertToString(er.c, er.val)
        errorMsg == mr.val
        c1 == Emit(mr.c, Ins("strcpy", 0, <<ExcMsgPtr, errorMsg>>, <<>>, ""))
        c2 == clearTempMemory(c1)
        c3 == IF c2.exceptionContextStack = <<>>
              THEN LET u1 == EmitRes(c2, "printf", <<errorMsg>>,
                                     "Uncaught exception: %s\\n")
                       u2 == Emit(u1, Ins("exit", 0, <<>>, <<>>, ""))
                   IN  Emit(u2, Ins("unreachable", 0, <<>>, <<>>, ""))
              ELSE LET jmpBuf == Last(c2.exceptionContextStack)
                       l1 == Emit(c2, Ins("longjmp", 0, <<>>, <<>>, jmpBuf))
                   IN  Emit(l1, Ins("unreachable", 0, <<>>, <<>>, ""))
    IN  SetInsertPoint(NewBlock(c3, "after_throw"), NewBlockId(c3))

codegenThrow(c, node) == ThrowValue(codegenExpr(c, node.e))

\* the first loop of codegenSwitchStmt: one block per CaseNode
RECURSIVE CreateCaseBlocks(_, _, _)
CreateCaseBlocks(c, caseList, i) ==
    IF i > Len(caseList) THEN c
    ELSE CreateCaseBlocks(
             NewBlock(c, IF caseList[i].isDefault THEN "default" ELSE "case"),
             caseList, i + 1)

\* a switch whose unmatched values go to its first case block
DefaultIsFirstCase(caseList, firstBB, i, found) == firstBB

\* the last default in the list wins (defaultBB is overwritten)
RECURSIVE DefaultBlock(_, _, _, _)
DefaultBlock(caseList, firstBB, i, found) ==
    IF i > Len(caseList) THEN found
    ELSE DefaultBlock(caseList, firstBB, i + 1,
                      IF caseList[i].isDefault THEN firstBB + i - 1 ELSE found)

\* switchInst->addCase for a case whose value (vr) is a constant integer
AddCase(vr, caseBB, sw) ==
    IF vr.val.v # "cint" THEN vr.c
    ELSE [vr.c EXCEPT !.blocks[sw[1]].ins[sw[2]].cases =
              Append(@, [value |-> vr.val.n, dest |-> caseBB])]

\* the second loop of codegenSwitchStmt; sw = <<block, index>> of the switch
RECURSIVE CodegenCases(_, _, _, _, _, _)
CodegenCases(c, caseList, i, firstBB, afterSwitchBB, sw) ==
    IF i > Len(caseList) THEN c
    ELSE CodegenCases(
             BrUnlessTerminated(
                 codegenBlock(
                     IF caseList[i].isDefault
                     THEN SetInsertPoint(c, firstBB + i - 1)
                     ELSE AddCase(codegenExpr(SetInsertPoint(c, firstBB + i - 1),
                                              caseList[i].value),
                                  firstBB + i - 1, sw),
                     caseList[i].body),
                 afterSwitchBB),
             caseList, i + 1, firstBB, afterSwitchBB, sw)

\* codegenSwitchStmt with the switch value lowered (cr)
SwitchOn(cr, node) ==
    LET afterSwitchBB == NewBlockId(cr.c)
        firstBB == afterSwitchBB + 1
        c1 == CreateCaseBlocks(NewBlock(cr.c, "after_switch"), node.caseList, 1)
        defaultBB == DefaultBlock(node.caseList, firstBB, 1, afterSwitchBB)
        c2 == Emit(c1, Ins("switch", 0, <<cr.val>>, <<defaultBB>>, ""))
        sw == <<c2.cur, Len(c2.blocks[c2.cur].ins)>>
        c3 == [c2 EXCEPT !.loopContextStack =
                   Append(@, [continueBlock |-> 0, breakBlock |-> afterSwitchBB])]
        c4 == CodegenCases(c3, node.caseList, 1, firstBB, afterSwitchBB, sw)
    IN  IF cr.val = NoVal THEN Cerr(cr.c, "Invalid switch condition")
        ELSE [SetInsertPoint(c4, afterSwitchBB) EXCEPT !.loopContextStack = Front(@)]

codegenSwitchStmt(c, node) == SwitchOn(codegenExpr(c, node.cond), node)

\* the parameter loop of codegenFunctionDecl: an alloca per argument, the
\* argument stored into it
RECURSIVE StoreParameters(_, _, _)
StoreParameters(c, node, i) ==
    IF i > Len(node.params) THEN c
    ELSE LET type == getType(node.params[i].type)
             alloca == NextAlloca(c)
             c1 == createEntryBlockAlloca(c, node.name, type, 0)
             c2 == Emit(c1, Ins("store", 0, <<ArgVal(i, type)>>, <<>>, alloca))
         IN  StoreParameters(
                 [c2 EXCEPT !.namedValues = Put(@, node.params[i].name, alloca)],
                 node, i + 1)

\* the end of codegenFunctionDecl, the body emitted (c3)
FunctionEnd(c3, retType, prevFunction) ==
    [(IF HasTerminator(c3) THEN c3
      ELSE IF retType = "void"
      THEN Emit(clearTempMemory(c3), Ins("ret", 0, <<>>, <<>>, ""))
      ELSE Emit(clearTempMemory(c3),
                Ins("ret", 0, <<NullValue(retType)>>, <<>>, "")))
        EXCEPT !.currentFunction = prevFunction]

codegenFunctionDecl(c, node) ==
    IF Has(c.funcs, node.name) THEN Cerr(c, "Function is already defined")
    ELSE LET entryBB == NewBlockId(c)
             c1 == SetInsertPoint(NewBlockIn(c, node.name, "entry"), entryBB)
             c2 == [c1 EXCEPT
                      !.funcs = Put(@, node.name, entryBB),
                      !.paramTypes =
                          Put(@, node.name,
                              [i \in 1..Len(node.params) |->
                                  getType(node.params[i].type)]),
                      !.returnTypes = Put(@, node.name, getType(node.returnType)),
                      !.currentFunction = node.name,
                      !.namedValues = EmptyMap,
                      !.variableTypes = EmptyMap,
                      !.entered = Append(@,
                          [fn |-> node.name,
                           tempMemoryStack |-> c.tempMemoryStack,
                           ownedStringMemory |-> c.ownedStringMemory,
                           loopContextStack |-> c.loopContextStack,
                           exceptionContextStack |-> c.exceptionContextStack])]
         IN  FunctionEnd(codegenBlock(StoreParameters(c2, node, 1), node.body),
                         getType(node.returnType), c.currentFunction)

\* the module files of the compilation's directory: name -> parsed tree
ModuleFiles ==
    [A |-> <<FunctionDecl("f", <<PrintStmt(StrLit(<<"A.f">>))>>),
             Let("k", "int", IntLit(5)),
             FunctionDecl("g", <<PrintStmt(StrLit(<<"A.g">>))>>)>>,
     B |-> <<FunctionDecl("f", <<PrintStmt(StrLit(<<"B.f">>))>>),
             Let("k", "int", IntLit(6))>>,
     M |-> <<Function("show", <<Param("x", "int")>>, "void",
                      <<PrintStmt(Ident("x"))>>)>>]

\* "" when no file of that name exists
findModuleFile(moduleName) ==
    IF moduleName \in DOMAIN ModuleFiles THEN moduleName ELSE ""

\* the registration of one module declaration in loadModule's loop:
\* c is the state before the declaration, c1 the state after its codegen
RegisterDeclaration(c, c1, moduleName, stmt) ==
    LET generated ==
            \/ stmt.k = "func" /\ ~Has(c.funcs, stmt.name)
                               /\ Has(c1.funcs, stmt.name)
            \/ stmt.k = "let" /\ ~Has(c.globalValues, stmt.name)
                              /\ Has(c1.globalValues, stmt.name)
        c2 == IF generated
              THEN [c1 EXCEPT !.lowered = Append(@, <<moduleName, stmt.name>>)]
              ELSE c1
    IN  IF stmt.k = "func" /\ Has(c1.funcs, stmt.name)
        THEN [c2 EXCEPT !.moduleFunctions[moduleName] =
                  Put(@, stmt.name, c1.funcs[stmt.name])]
        ELSE IF stmt.k = "let" /\ Has(c1.globalValues, stmt.name)
        THEN [c2 EXCEPT !.moduleGlobals[moduleName] =
                  Put(@, stmt.name, c1.globalValues[stmt.name])]
        ELSE c2

RECURSIVE LoadStatements(_, _, _, _)

\* the next iteration of loadModule's loop, declaration i registered (c3)
LoadNext(c3, moduleName, statements, i) ==
    IF c3.cur >= 0 THEN LoadStatements(c3, moduleName, statements, i + 1)
    ELSE c3

\* the loop of loadModule over moduleRoot->statements
LoadStatements(c, moduleName, statements, i) ==
    IF i > Len(statements) THEN c
    ELSE LoadNext(
             RegisterDeclaration(
                 c,
                 IF statements[i].k = "func"
                 THEN codegenFunctionDecl(c, statements[i])
                 ELSE IF statements[i].k = "let"
                 THEN codegenVarDecl(c, statements[i])
                 ELSE c,
                 moduleName, statements[i]),
             moduleName, statements, i)

\* loadModule: [c, ok] with ok the bool it returns
loadModule(c, moduleName) ==
    IF moduleName \in c.loadedModules THEN [c |-> c, ok |-> TRUE]
    ELSE IF findModuleFile(moduleName) = ""
    THEN [c |-> Cerr(c, "Module not found"), ok |-> FALSE]
    ELSE LET moduleRoot == ModuleFiles[findModuleFile(moduleName)]
             c1 == IF Has(c.moduleFunctions, moduleName) THEN c
                   ELSE [c EXCEPT !.moduleFunctions = Put(@, moduleName, EmptyMap),
                                  !.moduleGlobals = Put(@, moduleName, EmptyMap)]
             c2 == LoadStatements(c1, moduleName, moduleRoot, 1)
         IN  [c |-> [c2 EXCEPT !.loadedModules = @ \cup {moduleName}],
              ok |-> TRUE]

codegenImport(c, node) ==
    LET lm == loadModule(c, node.moduleName)
    IN  IF ~lm.ok THEN Cerr(lm.c, "Failed to import module")
        ELSE IF node.alias # ""
        THEN [lm.c EXCEPT !.moduleAliases = Put(@, node.alias, node.moduleName)]
        ELSE [lm.c EXCEPT !.moduleAliases =
                  Put(@, node.moduleName, node.moduleName)]

\* a while, for, switch or try/catch statement has been lowered (c1): the
\* record of both context stacks and of the locals as they were before it
\* and as they are now
Lowered(c1, node, loopContextStack, exceptionContextStack, namedValues) ==
    [c1 EXCEPT !.constructs =
         Append(@, [k |-> node.k,
                    namedBefore |-> namedValues,
                    namedAfter |-> c1.namedValues,
                    loopBefore |-> loopContextStack,
                    loopAfter |-> c1.loopContextStack,
                    excBefore |-> exceptionContextStack,
                    excAfter |-> c1.exceptionContextStack])]

\* codegenWhileStmt, codegenForStmt, codegenSwitchStmt or codegenTryCatch
codegenConstruct(c, node) ==
    CASE node.k = "while" -> codegenWhileStmt(c, node)
      [] node.k = "for" -> codegenForStmt(c, node)
      [] node.k = "switch" -> codegenSwitchStmt(c, node)
      [] node.k = "try" -> codegenTryCatch(c, node)

\* the statements of the generator run in sequence: the test on c makes TLC
\* finish the code before this statement first
codegenStmt(c, node) ==
    IF c.cur < 0 THEN c ELSE
    CASE node.k = "let" -> codegenVarDecl(c, node)
      [] node.k = "letarray" -> codegenVarDecl(c, node)
      [] node.k \in {"assign", "elemassign"} -> codegenAssignment(c, node)
      [] node.k = "block" -> codegenBlock(c, node.body)
      [] node.k = "if" -> codegenIfStmt(c, node)
      [] node.k \in {"while", "for", "switch", "try"} ->
           Lowered(codegenConstruct(c, node), node, c.loopContextStack,
                   c.exceptionContextStack, c.namedValues)
      [] node.k = "break" -> codegenBreakStmt(c, node)
      [] node.k = "continue" -> codegenContinueStmt(c, node)
      [] node.k = "return" -> codegenReturnStmt(c, node)
      [] node.k \in {"print", "call"} -> codegenExprStmt(c, node)
      [] node.k = "func" -> codegenFunctionDecl(c, node)
      [] node.k = "throw" -> codegenThrow(c, node)
      [] node.k = "import" -> codegenImport(c, node)
      [] OTHER -> Cerr(c, "Unknown statement type")

\* codegenBlock over the statement list, then clearTempMemory
RECURSIVE LowerList(_, _, _)

\* the statements after statement i, which is lowered (c1); the test makes
\* TLC lower statement i before it turns to i + 1
LowerRest(c1, stmts, i) ==
    IF c1.cur >= 0 THEN LowerList(c1, stmts, i + 1) ELSE c1

LowerList(c, stmts, i) ==
    IF i > Len(stmts) THEN c
    ELSE LowerRest(codegenStmt(c, stmts[i]), stmts, i)

codegenBlock(c, stmts) == clearTempMemory(LowerList(c, stmts, 1))

\* the loop of createGlobalConstructor from initializer i on
RECURSIVE InitializeGlobals(_, _)

\* initializer i lowered (ir): its value is stored into the variable, then
\* clearTempMemory
StoreGlobalInitializer(ir, i) ==
    InitializeGlobals(
        clearTempMemory(
            IF ir.val = NoVal
            THEN Cerr(ir.c, "Failed to generate initializer for global variable")
            ELSE Emit(ir.c, Ins("gstore", 0, <<ir.val>>, <<>>,
                                ir.c.globalInitializers[i].variable))),
        i + 1)

InitializeGlobals(c, i) ==
    IF c.cur < 0 \/ i > Len(c.globalInitializers) THEN c
    ELSE StoreGlobalInitializer(
             codegenExpr(c, c.globalInitializers[i].initializer), i)

\* the end of createGlobalConstructor: the function context is restored
\* and the routine returns
GlobalConstructorEnd(c1, savedFunction) ==
    Emit([c1 EXCEPT !.currentFunction = savedFunction],
         Ins("ret", 0, <<>>, <<>>, ""))

\* createGlobalConstructor: the routine __global_init, run before main,
\* evaluates the deferred initializers in declaration order
createGlobalConstructor(c) ==
    IF c.globalInitializers = <<>> THEN c
    ELSE GlobalConstructorEnd(
             InitializeGlobals(
                 [SetInsertPoint(NewBlockIn(c, "__global_init", "entry"),
                                 NewBlockId(c))
                     EXCEPT !.funcs = Put(@, "__global_init", NewBlockId(c)),
                            !.currentFunction = "__global_init"],
                 1),
             c.currentFunction)

\* generate(root): every top-level statement in order, then the global
\* constructor
generate(root) == createGlobalConstructor(LowerList(CodeGenerator, root, 1))

(***************************************************************************)
(* llvm::verifyModule on the emitted blocks                                *)
(***************************************************************************)
Successors(c, b) ==
    LET ins == c.blocks[b].ins
        t == ins[Len(ins)]
    IN  IF ins = <<>> THEN {}
        ELSE {t.tgt[j] : j \in 1..Len(t.tgt)}
             \cup {t.cases[j].dest : j \in 1..Len(t.cases)}

Predecessors(c, b) == {x \in 1..Len(c.blocks) : b \in Successors(c, x)}

\* blocks reachable from the blocks in frontier without entering avoid
RECURSIVE Reach(_, _, _, _)
Reach(c, frontier, seen, avoid) ==
    LET next == (UNION {Successors(c, b) : b \in frontier}) \ (seen \cup {avoid})
    IN  IF next = {} THEN seen ELSE Reach(c, next, seen \cup next, avoid)

ReachableFrom(c, entry, avoid) ==
    IF entry = avoid THEN {} ELSE Reach(c, {entry}, {entry}, avoid)

\* where the instruction with result id is: <<block, index>>, <<0, 0>> if none
DefSite(c, id) ==
    LET sites == {<<b, i>> \in UNION {{b} \X (1..Len(c.blocks[b].ins)) :
                                        b \in 1..Len(c.blocks)} :
                    c.blocks[b].ins[i].res = id}
    IN  IF sites = {} THEN <<0, 0>> ELSE CHOOSE x \in sites : TRUE

\* the definition of value id dominates its use at <<ub, ui>>
Dominates(c, id, ub, ui) ==
    LET d == DefSite(c, id)
        fn == c.blocks[ub].fn
        entry == c.funcs[fn]
    IN  /\ d[1] # 0
        /\ c.blocks[d[1]].fn = fn
        /\ \/ ub \notin ReachableFrom(c, entry, 0)
           \/ d[1] = ub /\ d[2] < ui
           \/ d[1] # ub /\ ub \notin ReachableFrom(c, entry, d[1])

BlockWellFormed(c, b) ==
    LET ins == c.blocks[b].ins
    IN  /\ ins # <<>>
        /\ ins[Len(ins)].op \in Terminators
        /\ \A i \in 1..(Len(ins) - 1) : ins[i].op \notin Terminators
        /\ \A i \in 1..Len(ins) :
             /\ \A j \in 1..Len(ins[i].args) :
                  ins[i].args[j].v = "inst" =>
                      IF ins[i].op = "phi"
                      THEN Dominates(c, ins[i].args[j].n, ins[i].tgt[j],
                                     Len(c.blocks[ins[i].tgt[j]].ins) + 1)
                      ELSE Dominates(c, ins[i].args[j].n, b, i)
             /\ ins[i].op = "phi" =>
                  {ins[i].tgt[j] : j \in 1..Len(ins[i].tgt)} = Predecessors(c, b)
             /\ ins[i].op \in {"load", "store", "setjmp", "longjmp", "gep"} =>
                  c.allocas[ins[i].aux].fn = c.blocks[b].fn
             /\ \A j, h \in 1..Len(ins[i].cases) :
                  ins[i].cases[j].value = ins[i].cases[h].value => j = h
             /\ ins[i].op = "call" =>
                  Len(ins[i].args) = Len(c.paramTypes[ins[i].aux])
             /\ \A j \in 1..Len(ins[i].tgt) :
                  /\ ins[i].tgt[j] \in 1..Len(c.blocks)
                  /\ c.blocks[ins[i].tgt[j]].fn = c.blocks[b].fn

\* the initializer of global g is a constant of another type than g
MistypedInitializer(c, g) ==
    c.globals[g].init # NoVal /\ c.globals[g].init.ty # c.globals[g].ty

verifyModule(c) ==
    /\ \A b \in 1..Len(c.blocks) : BlockWellFormed(c, b)
    /\ \A g \in 1..Len(c.globals) : ~MistypedInitializer(c, g)

\* the value generate() returns
GenerateOk(c) == c.errorCount = 0 /\ verifyModule(c)

(***************************************************************************)
(* The machine that runs the emitted code                                  *)
(***************************************************************************)
\* run-time values: p = "heap" (a: allocation), "lit" (t: text of a constant
\* string), "exc" (the __exception_msg cell), "int" (a: the number),
\* "double" (the fraction a / d), "nan", "inf" (a: sign), "elem" (address of
\* element d of the array in alloca a), "undef" (never written, or the
\* result of undefined behaviour)
RV(p, a, t) == [p |-> p, a |-> a, t |-> t, d |-> 1]

Garbage == <<"?">>

Undef == RV("undef", 0, <<>>)

NaN == RV("nan", 0, <<>>)

Abs(x) == IF x < 0 THEN -x ELSE x

RECURSIVE GCD(_, _)
GCD(x, y) == IF y = 0 THEN x ELSE GCD(y, x % y)

\* the double num / den, den # 0, in lowest terms with a positive denominator
Double(num, den) ==
    IF den = 1 THEN [p |-> "double", a |-> num, t |-> <<>>, d |-> 1]
    ELSE LET g == GCD(Abs(num), Abs(den))
             sign == IF den < 0 THEN -1 ELSE 1
         IN  [p |-> "double", a |-> sign * (num \div g), t |-> <<>>,
              d |-> sign * (den \div g)]

\* division rounding toward zero, as sdiv and fptosi do
TruncDiv(x, y) ==
    IF y = 1 THEN x
    ELSE IF (x >= 0) = (y > 0) THEN Abs(x) \div Abs(y)
    ELSE -(Abs(x) \div Abs(y))

\* integers of the types i1 and i8 are held as their bit pattern read
\* unsigned (0..1, 0..255), integers of type i32 as signed numbers
Pow2(bits) == IF bits = 1 THEN 2 ELSE 256

\* the number a value of an integer type stands for when read as signed
SignedValue(type, a) ==
    IF type = "i32" \/ 2 * a < Pow2(BitWidth(type)) THEN a
    ELSE a - Pow2(BitWidth(type))

\* the bit pattern of the signed number n in an integer type that holds it
BitPattern(type, n) == IF type = "i32" THEN n ELSE n % Pow2(BitWidth(type))

\* whether the signed number n fits the integer type
FitsSigned(type, n) ==
    type = "i32" \/ (2 * n < Pow2(BitWidth(type)) /\ 2 * n >= -Pow2(BitWidth(type)))

\* zext, sext, trunc, uitofp, sitofp and fptosi of x from type from to type
\* to; fptosi of a number that does not fit is poison
CastValue(op, x, from, to) ==
    CASE op \in {"zext", "sext", "trunc"} /\ x.p # "int" -> Undef
      [] op \in {"uitofp", "sitofp"} /\ x.p # "int" -> Undef
      [] op = "fptosi" /\ x.p # "double" -> Undef
      [] op = "zext" -> RV("int", x.a, <<>>)
      [] op = "sext" -> RV("int", BitPattern(to, SignedValue(from, x.a)), <<>>)
      [] op = "trunc" -> RV("int", BitPattern(to, x.a), <<>>)
      [] op = "uitofp" -> Double(x.a, 1)
      [] op = "sitofp" -> Double(SignedValue(from, x.a), 1)
      [] op = "fptosi" ->
           IF FitsSigned(to, TruncDiv(x.a, x.d))
           THEN RV("int", BitPattern(to, TruncDiv(x.a, x.d)), <<>>)
           ELSE Undef

\* sdiv / srem with a divisor that is not zero
IntOp(op, x, y) ==
    IF x.p # "int" \/ y.p # "int" THEN Undef
    ELSE IF op = "sdiv" THEN RV("int", TruncDiv(x.a, y.a), <<>>)
    ELSE IF op = "srem" THEN RV("int", x.a - y.a * TruncDiv(x.a, y.a), <<>>)
    ELSE IF op = "sub" THEN RV("int", x.a - y.a, <<>>)
    ELSE RV("int", x.a + y.a, <<>>)

\* fdiv / frem / fadd under IEEE 754: x / 0 is an infinity, 0 / 0 and
\* x rem 0 are NaN
FloatOp(op, x, y) ==
    IF x.p # "double" \/ y.p # "double"
    THEN IF "undef" \in {x.p, y.p} THEN Undef ELSE NaN
    ELSE IF op = "fadd" THEN Double(x.a * y.d + y.a * x.d, x.d * y.d)
    ELSE IF op = "fsub" THEN Double(x.a * y.d - y.a * x.d, x.d * y.d)
    ELSE IF y.a = 0
    THEN IF op = "fdiv" /\ x.a # 0
         THEN RV("inf", IF x.a > 0 THEN 1 ELSE -1, <<>>) ELSE NaN
    ELSE IF op = "fdiv" THEN Double(x.a * y.d, x.d * y.a)
    ELSE LET q == TruncDiv(x.a * y.d, x.d * y.a)
         IN  Double(x.a * y.d - q * y.a * x.d, x.d * y.d)

\* env: value of each executed instruction, slots: content of each scalar
\* alloca, arrays: content of each array alloca, jmps: the context each
\* jmp_buf alloca holds (block, index, result id), prev: the block left last
Frame(fn, b) ==
    [fn |-> fn, b |-> b, i |-> 1, prev |-> 0, env |-> EmptyMap,
     slots |-> EmptyMap, arrays |-> EmptyMap, jmps |-> EmptyMap,
     args |-> <<>>]

\* the run-time value of a constant operand
Eval0(val) ==
    CASE val.v = "gstr" -> RV("lit", 0, val.s)
      [] val.v = "cint" -> RV("int", val.n, <<>>)
      [] val.v = "cfp" -> Double(val.n, 1)
      [] val.v = "cnan" -> NaN
      [] val.v = "excmsg" -> RV("exc", 0, <<>>)
      [] val.v = "cnull" -> RV("null", 0, <<>>)
      [] OTHER -> Undef

Machine(c) ==
    [status |-> "run",
     stack |-> <<IF Has(c.funcs, "__global_init")
                 THEN Frame("__global_init", c.funcs["__global_init"])
                 ELSE Frame("main", c.funcs["main"])>>,
     heap |-> <<>>,                   \* per allocation: frees, txt
     globals |-> [g \in 1..Len(c.globals) |-> Eval0(c.globals[g].init)],
     excmsg |-> <<>>,                 \* text in __exception_msg
     out |-> <<>>,                    \* what printf wrote
     steps |-> 0,
     trues |-> 0,
     uaf |-> FALSE,                   \* a released buffer was used
     oob |-> FALSE,                   \* memory outside an array was accessed
     overrun |-> FALSE,               \* bytes were written past __exception_msg
     divz |-> FALSE,                  \* a division by zero was executed
     displaced |-> {},                \* allocations a reassignment overwrote
     tries |-> <<>>]                  \* try bodies being executed, outermost first

Idle ==
    [status |-> "idle", stack |-> <<>>, heap |-> <<>>, globals |-> <<>>,
     excmsg |-> <<>>, out |-> <<>>, steps |-> 0, trues |-> 0, uaf |-> FALSE,
     oob |-> FALSE, overrun |-> FALSE, divz |-> FALSE, displaced |-> {},
     tries |-> <<>>]

Top(m) == m.stack[Len(m.stack)]

CurrentIns(c, m) == c.blocks[Top(m).b].ins[Top(m).i]

\* the run-time value of an operand in the running frame
Eval(m, val) ==
    IF val.v = "inst"
    THEN IF Has(Top(m).env, val.n) THEN Top(m).env[val.n] ELSE Undef
    ELSE IF val.v = "arg" THEN Top(m).args[val.n]
    ELSE Eval0(val)

Released(m, r) == r.p = "heap" /\ m.heap[r.a].frees > 0

\* what printf writes for a number
Show(r) ==
    CASE r.p = "int" -> <<ToString(r.a)>>
      [] r.p = "double" -> <<ToString(r.a), "/", ToString(r.d)>>
      [] r.p = "nan" -> <<"nan">>
      [] r.p = "inf" -> <<"inf">>
      [] OTHER -> Garbage

\* the text at a pointer; g tells whether a released buffer reads as garbage
TextAt(m, r, g) ==
    CASE r.p = "lit" -> r.t
      [] r.p = "exc" -> m.excmsg
      [] r.p = "heap" -> IF Released(m, r) /\ g THEN Garbage ELSE m.heap[r.a].txt
      [] OTHER -> Show(r)

WriteText(m, r, txt) ==
    CASE r.p = "exc" -> [m EXCEPT !.excmsg = txt]
      [] r.p = "heap" -> [m EXCEPT !.heap[r.a].txt = txt]
      [] OTHER -> m

Advance(m) == [m EXCEPT !.stack[Len(m.stack)].i = @ + 1]

Define(m, id, r) == [m EXCEPT !.stack[Len(m.stack)].env = Put(@, id, r)]

Goto(m, b) ==
    [m EXCEPT !.stack[Len(m.stack)].prev = Top(m).b,
              !.stack[Len(m.stack)].b = b,
              !.stack[Len(m.stack)].i = 1]

MarkUse(m, used) ==
    IF \E j \in 1..Len(used) : Released(m, used[j]) THEN [m EXCEPT !.uaf = TRUE]
    ELSE m

\* the content of an array alloca: its elements are undefined until stored
ArrayOf(c, f, alloca) ==
    IF Has(f.arrays, alloca) THEN f.arrays[alloca]
    ELSE [j \in 1..c.allocas[alloca].size |-> Undef]

InBounds(c, ptr) == ptr.p = "elem" /\ ptr.d >= 0 /\ ptr.d < c.allocas[ptr.a].size

\* strcpy(dest, src) into the exception message cell writes the text at
\* src and its terminator: more bytes than the cell has when the text is
\* not shorter than the cell
CellOverrun(m, dest, src) ==
    dest.p = "exc" /\ Len(TextAt(m, src, FALSE)) + 1 > EXCEPTION_MSG_BUFFER_SIZE

\* one instruction of the emitted code.  g: a released buffer reads as
\* garbage, t: outcome of a comparison over program inputs, ub: what
\* undefined behaviour does here ("trap", "zero" or "junk")
Exec(c, m, g, t, ub) ==
    LET ins == CurrentIns(c, m)
        f == Top(m)
        a == [j \in 1..Len(ins.args) |-> Eval(m, ins.args[j])]
        u == MarkUse(m, a)
        crashed == [m EXCEPT !.status = "crashed"]
    IN  CASE ins.op = "load" ->
               Advance(Define(m, ins.res,
                   IF Has(f.slots, ins.aux) THEN f.slots[ins.aux] ELSE Undef))
          [] ins.op = "store" ->
               LET old == IF Has(f.slots, ins.aux) THEN f.slots[ins.aux] ELSE Undef
                   m1 == [m EXCEPT !.stack[Len(m.stack)].slots =
                                       Put(@, ins.aux, a[1])]
               IN  Advance(IF old.p = "heap" /\ old # a[1]
                           THEN [m1 EXCEPT !.displaced = @ \cup {old.a}]
                           ELSE m1)
          [] ins.op = "gload" -> Advance(Define(m, ins.res, m.globals[ins.aux]))
          [] ins.op = "gstore" ->
               IF ~c.globals[ins.aux].isConstant \/ ub = "junk"
               THEN Advance([m EXCEPT !.globals[ins.aux] = a[1]])
               ELSE IF ub = "trap" THEN crashed
               ELSE Advance(m)
          [] ins.op = "gep" ->
               Advance(Define(m, ins.res,
                   [p |-> "elem", a |-> ins.aux, t |-> <<>>,
                    d |-> IF a[1].p = "int" THEN a[1].a ELSE -1]))
          [] ins.op = "loadp" ->
               IF InBounds(c, a[1])
               THEN Advance(Define(m, ins.res,
                                   ArrayOf(c, f, a[1].a)[a[1].d + 1]))
               ELSE IF ub = "trap" THEN [crashed EXCEPT !.oob = TRUE]
               ELSE Advance(Define([m EXCEPT !.oob = TRUE], ins.res,
                       IF ub = "zero" THEN RV("int", 0, <<>>) ELSE Undef))
          [] ins.op = "storep" ->
               IF InBounds(c, a[2])
               THEN Advance([m EXCEPT !.stack[Len(m.stack)].arrays =
                       Put(@, a[2].a, [ArrayOf(c, f, a[2].a)
                                         EXCEPT ![a[2].d + 1] = a[1]])])
               ELSE IF ub = "trap" THEN [crashed EXCEPT !.oob = TRUE]
               ELSE Advance([m EXCEPT !.oob = TRUE])
          [] ins.op \in {"sdiv", "srem"} ->
               IF a[2].p = "int" /\ a[2].a = 0
               THEN IF ub = "trap" THEN [crashed EXCEPT !.divz = TRUE]
                    ELSE Advance(Define([m EXCEPT !.divz = TRUE], ins.res,
                            IF ub = "zero" THEN RV("int", 0, <<>>) ELSE Undef))
               ELSE Advance(Define(m, ins.res, IntOp(ins.op, a[1], a[2])))
          [] ins.op \in {"add", "sub"} ->
               Advance(Define(m, ins.res, IntOp(ins.op, a[1], a[2])))
          [] ins.op \in {"fdiv", "frem", "fadd", "fsub"} ->
               Advance(Define([m EXCEPT !.divz = @ \/ (ins.op \in {"fdiv", "frem"}
                                           /\ a[2].p = "double" /\ a[2].a = 0)],
                              ins.res, FloatOp(ins.op, a[1], a[2])))
          [] ins.op \in {"zext", "sext", "trunc", "uitofp", "sitofp", "fptosi"} ->
               Advance(Define(m, ins.res,
                   CastValue(ins.op, a[1], ins.args[1].ty,
                             IF ins.aux = "" THEN "i32" ELSE ins.aux)))
          [] ins.op = "phi" ->
               LET j == CHOOSE j \in 1..Len(ins.tgt) : ins.tgt[j] = f.prev
               IN  Advance(Define(m, ins.res, a[j]))
          [] ins.op = "strlen" ->
               Advance(Define(u, ins.res, RV("int", Len(TextAt(m, a[1], g)), <<>>)))
          [] ins.op = "malloc" ->
               Advance(Define([m EXCEPT !.heap = Append(@, [frees |-> 0,
                                                            txt |-> <<>>])],
                              ins.res, RV("heap", Len(m.heap) + 1, <<>>)))
          [] ins.op = "strcpy" ->
               IF ~CellOverrun(m, a[1], a[2])
               THEN Advance(WriteText(u, a[1], TextAt(m, a[2], g)))
               ELSE IF ub = "trap" THEN [crashed EXCEPT !.overrun = TRUE]
               ELSE Advance(WriteText([u EXCEPT !.overrun = TRUE], a[1],
                                      TextAt(m, a[2], g)))
          [] ins.op = "strcat" ->
               Advance(WriteText(u, a[1],
                                 TextAt(m, a[1], g) \o TextAt(m, a[2], g)))
          [] ins.op = "sprintf" ->
               Advance(WriteText(MarkUse(m, <<a[1]>>), a[1], Show(a[2])))
          [] ins.op = "free" ->
               Advance(IF a[1].p = "heap"
                       THEN [u EXCEPT !.heap[a[1].a].frees = @ + 1]
                       ELSE u)
          [] ins.op = "printf" ->
               Advance(Define([u EXCEPT !.out = Append(@,
                                  [k |-> ins.aux,
                                   txt |-> IF ins.args = <<>> THEN <<>>
                                           ELSE TextAt(m, a[1], g)])],
                              ins.res, RV("int", 0, <<>>)))
          [] ins.op = "icmp" ->
               LET r == t /\ m.trues < MaxIter
               IN  Advance(Define([m EXCEPT !.trues = IF r THEN @ + 1 ELSE @],
                                  ins.res, RV("int", IF r THEN 1 ELSE 0, <<>>)))
          [] ins.op \in {"icmpeq", "fcmpoeq"} ->
               Advance(Define(m, ins.res,
                   IF "undef" \in {a[1].p, a[2].p} THEN Undef
                   ELSE RV("int", IF a[1] = a[2] THEN 1 ELSE 0, <<>>)))
          [] ins.op \in {"icmpne", "fcmpone"} ->
               Advance(Define(m, ins.res,
                   IF "undef" \in {a[1].p, a[2].p} THEN Undef
                   ELSE RV("int", IF a[1] # a[2] THEN 1 ELSE 0, <<>>)))
          [] ins.op \in {"icmpne0", "fcmpone0"} ->
               Advance(Define(m, ins.res,
                   IF a[1].p \notin {"int", "double"} THEN Undef
                   ELSE RV("int", IF a[1].a # 0 THEN 1 ELSE 0, <<>>)))
          [] ins.op = "icmpslt" ->
               Advance(Define(m, ins.res,
                   IF "undef" \in {a[1].p, a[2].p} THEN Undef
                   ELSE RV("int", IF a[1].a < a[2].a THEN 1 ELSE 0, <<>>)))
          [] ins.op = "icmpeq0" ->
               Advance(Define(m, ins.res,
                   RV("int", IF a[1].p = "int" /\ a[1].a = 0 THEN 1 ELSE 0, <<>>)))
          [] ins.op = "icmpslt0" ->
               Advance(Define(m, ins.res,
                   RV("int", IF a[1].p = "int" /\ a[1].a < 0 THEN 1 ELSE 0, <<>>)))
          [] ins.op = "fcmpoeq0" ->
               Advance(Define(m, ins.res,
                   RV("int", IF a[1].p = "double" /\ a[1].a = 0 THEN 1 ELSE 0,
                      <<>>)))
          [] ins.op = "br" -> Goto(m, ins.tgt[1])
          [] ins.op = "condbr" ->
               Goto(m, IF a[1].a # 0 THEN ins.tgt[1] ELSE ins.tgt[2])
          [] ins.op = "switch" ->
               LET hit == {j \in 1..Len(ins.cases) : ins.cases[j].value = a[1].a}
               IN  Goto(m, IF hit = {} THEN ins.tgt[1]
                           ELSE ins.cases[CHOOSE j \in hit :
                                            \A h \in hit : j <= h].dest)
          [] ins.op = "setjmp" ->
               Advance(Define([m EXCEPT !.stack[Len(m.stack)].jmps =
                                  Put(@, ins.aux, [b |-> f.b, i |-> f.i,
                                                   res |-> ins.res])],
                              ins.res, RV("int", 0, <<>>)))
          [] ins.op = "longjmp" ->
               IF Has(f.jmps, ins.aux)
               THEN LET j == f.jmps[ins.aux]
                    IN  Advance(Define([m EXCEPT !.stack[Len(m.stack)].b = j.b,
                                                 !.stack[Len(m.stack)].i = j.i],
                                       j.res, RV("int", 1, <<>>)))
               ELSE crashed
          [] ins.op = "call" ->
               [Advance(m) EXCEPT !.stack =
                   Append(@, [Frame(ins.aux, c.funcs[ins.aux])
                                EXCEPT !.args = a])]
          [] ins.op = "ret" ->
               IF Len(m.stack) = 1
               THEN IF f.fn = "__global_init"
                    THEN [m EXCEPT !.stack = <<Frame("main", c.funcs["main"])>>]
                    ELSE [m EXCEPT !.status = "done"]
               ELSE LET caller == m.stack[Len(m.stack) - 1]
                        callInst == c.blocks[caller.b].ins[caller.i - 1]
                        result == IF ins.args = <<>> THEN Undef ELSE a[1]
                    IN  IF callInst.res = 0 THEN [m EXCEPT !.stack = Front(@)]
                        ELSE [m EXCEPT !.stack =
                                 [Front(@) EXCEPT ![Len(m.stack) - 1].env =
                                     Put(@, callInst.res, result)]]
          [] ins.op = "exit" -> [m EXCEPT !.status = "exited"]
          [] OTHER -> crashed

\* whether the current instruction has undefined behaviour: an integer
\* division by zero, an access outside an array, a store to a
\* GlobalVariable created with isConstant = true, or a copy that does not
\* fit the exception message cell
Undefined(c, m) ==
    LET ins == CurrentIns(c, m)
        a == [j \in 1..Len(ins.args) |-> Eval(m, ins.args[j])]
    IN  \/ ins.op \in {"sdiv", "srem"} /\ a[2].p = "int" /\ a[2].a = 0
        \/ ins.op = "loadp" /\ ~InBounds(c, a[1])
        \/ ins.op = "storep" /\ ~InBounds(c, a[2])
        \/ ins.op = "gstore" /\ c.globals[ins.aux].isConstant
        \/ ins.op = "strcpy" /\ CellOverrun(m, a[1], a[2])

\* the catch block of the try whose setjmp is in block b
CatchOf(c, b) == Last(c.blocks[b].ins).tgt[2]

RECURSIVE MatchingTry(_, _, _, _)
MatchingTry(tries, catchBB, depth, k) ==
    IF k = 0 THEN 0
    ELSE IF tries[k].catch = catchBB /\ tries[k].depth = depth THEN k
    ELSE MatchingTry(tries, catchBB, depth, k - 1)

\* history of the try bodies in execution: a body is entered by the branch
\* on the setjmp result, and left by the branch to after_try_catch (the block
\* created right after the catch block), by a longjmp into its catch block, or
\* by the return of its function
NextTries(c, m) ==
    LET ins == CurrentIns(c, m)
        d == Len(m.stack)
        f == Top(m)
    IN  CASE ins.op = "condbr" /\ c.blocks[ins.tgt[1]].label = "try_block"
                /\ Eval(m, ins.args[1]).a # 0 ->
               Append(m.tries, [catch |-> ins.tgt[2], after |-> ins.tgt[2] + 1,
                                depth |-> d])
          [] ins.op = "br" /\ m.tries # <<>> /\ Last(m.tries).depth = d
                /\ Last(m.tries).after = ins.tgt[1] ->
               Front(m.tries)
          [] ins.op = "longjmp" /\ Has(f.jmps, ins.aux) ->
               LET k == MatchingTry(m.tries, CatchOf(c, f.jmps[ins.aux].b), d,
                                    Len(m.tries))
               IN  IF k = 0 THEN m.tries ELSE SubSeq(m.tries, 1, k - 1)
          [] ins.op = "ret" ->
               SelectSeq(m.tries, LAMBDA e : e.depth < d)
          [] OTHER -> m.tries

\* whether the current instruction hands a released buffer to a routine
UsesReleased(c, m) ==
    LET ins == CurrentIns(c, m)
    IN  /\ ins.op \in {"strlen", "strcpy", "strcat", "sprintf", "free", "printf"}
        /\ \E j \in 1..Len(ins.args) : Released(m, Eval(m, ins.args[j]))

(***************************************************************************)
(* Actions                                                                 *)
(***************************************************************************)
\* CreateStore(nullptr, slot): the constructor of the store reads the type of
\* the stored value, the compiler stops on a null pointer
StoresNull(c) ==
    \E b \in 1..Len(c.blocks) : \E i \in 1..Len(c.blocks[b].ins) :
        /\ c.blocks[b].ins[i].op = "store"
        /\ c.blocks[b].ins[i].args[1] = NoVal

\* a branch was created with a null destination (CreateBr(nullptr)): the
\* behaviour of the compiler from there on is undefined
BranchesToNull(c) ==
    \E b \in 1..Len(c.blocks) : \E i \in 1..Len(c.blocks[b].ins) :
        \E j \in 1..Len(c.blocks[b].ins[i].tgt) : c.blocks[b].ins[i].tgt[j] = 0

\* the calls in block b that pass another number of arguments than the
\* called function has parameters (CreateCall with a bad signature)
Miscalls(c, b) ==
    {i \in 1..Len(c.blocks[b].ins) :
        /\ c.blocks[b].ins[i].op = "call"
        /\ Len(c.blocks[b].ins[i].args) # Len(c.paramTypes[c.blocks[b].ins[i].aux])}

\* the module was built with an operation the library leaves undefined: a
\* branch to no block, ConstantInt::get for a type that is no integer type,
\* or a call with a bad signature
BuiltUndefined(c) ==
    \/ BranchesToNull(c)
    \/ \E g \in 1..Len(c.globals) : MistypedInitializer(c, g)
    \/ \E b \in 1..Len(c.blocks) : Miscalls(c, b) # {}

\* CodeGenerator::generate: lower the whole tree; the program is run only
\* when generate() returns true.  With an undefined operation behind it the
\* compiler may stop on the spot (abort) or hand the module to the verifier
Lower ==
    /\ phase = "parsed"
    /\ cg' = generate(prog)
    /\ \E abort \in IF StoresNull(cg') THEN {TRUE}
                    ELSE IF BuiltUndefined(cg') THEN BOOLEAN ELSE {FALSE} :
          IF abort THEN phase' = "aborted" /\ rt' = rt
          ELSE IF GenerateOk(cg') /\ Has(cg'.funcs, "main")
          THEN phase' = "run" /\ rt' = Machine(cg')
          ELSE phase' = "rejected" /\ rt' = rt
    /\ UNCHANGED prog

\* the machine executes the next instruction
Step ==
    /\ phase = "run"
    /\ rt.status = "run"
    /\ rt.steps < MaxSteps
    /\ \E g \in IF UsesReleased(cg, rt) THEN BOOLEAN ELSE {FALSE},
          t \in IF CurrentIns(cg, rt).op = "icmp" THEN BOOLEAN ELSE {FALSE},
          ub \in IF Undefined(cg, rt) THEN {"trap", "zero", "junk"}
                 ELSE {"zero"} :
          rt' = [Exec(cg, rt, g, t, ub) EXCEPT !.steps = rt.steps + 1,
                                           !.tries = NextTries(cg, rt)]
    /\ UNCHANGED <<prog, cg, phase>>

\* using a released buffer is undefined: the run may also stop right there
Fault ==
    /\ phase = "run"
    /\ rt.status = "run"
    /\ UsesReleased(cg, rt)
    /\ rt' = [rt EXCEPT !.status = "crashed", !.uaf = TRUE]
    /\ UNCHANGED <<prog, cg, phase>>

(***************************************************************************)
(* Programs                                                                *)
(***************************************************************************)
\* "a" + "b": a dynamic string
Dyn(x, y) == Concat(StrLit(<<x>>), StrLit(<<y>>))

Main(body) == <<FunctionDecl("main", body)>>

\* let s = "a" + "b"; s = "c" + "d"; print(s)
ReassignOnce ==
    Main(<<Let("s", "string", Dyn("a", "b")), Assign("s", Dyn("c", "d")),
           PrintStmt(Ident("s"))>>)

\* let s = "a" + "b"; while (...) { s = "c" + "d" } print(s)
ReassignInLoop ==
    Main(<<Let("s", "string", Dyn("a", "b")),
           WhileStmt(Cmp, <<Assign("s", Dyn("c", "d"))>>),
           PrintStmt(Ident("s"))>>)

\* let s = "a" + "b"; s = "x"; print(s)
ReassignLiteral ==
    Main(<<Let("s", "string", Dyn("a", "b")), Assign("s", StrLit(<<"x">>)),
           PrintStmt(Ident("s"))>>)

\* let s = "a" + "b"; if (...) { s = "c" + "d" } s = "e" + "f"
ReassignAfterIf ==
    Main(<<Let("s", "string", Dyn("a", "b")),
           IfStmt(Cmp, <<Assign("s", Dyn("c", "d"))>>, <<>>, FALSE),
           Assign("s", Dyn("e", "f"))>>)

\* let s = "a" + "b"; let t = s; s = "c" + "d"; print(t)
ReassignAliased ==
    Main(<<Let("s", "string", Dyn("a", "b")), Let("t", "string", Ident("s")),
           Assign("s", Dyn("c", "d")), PrintStmt(Ident("t"))>>)

\* print("a" + "b"); print("c")
PrintTemp ==
    Main(<<PrintStmt(Dyn("a", "b")), PrintStmt(StrLit(<<"c">>))>>)

\* throw "a" + "b" outside any try
ThrowDynUncaught == Main(<<ThrowStmt(Dyn("a", "b")), PrintStmt(StrLit(<<"next">>))>>)

\* try { throw "a" + "b"; print("next") } catch (e) { print(e) } print("after")
ThrowDynCaught ==
    Main(<<TryCatch(<<ThrowStmt(Dyn("a", "b")), PrintStmt(StrLit(<<"next">>))>>,
                    "e", <<PrintStmt(Ident("e"))>>),
           PrintStmt(StrLit(<<"after">>))>>)

\* func f() { throw "E"; print("f next") }
\* func main() { try { f(); print("try next") } catch (e) { print(e) }
\*               print("after") }
ThrowInCallee ==
    <<FunctionDecl("f", <<ThrowStmt(StrLit(<<"E">>)),
                          PrintStmt(StrLit(<<"f next">>))>>),
      FunctionDecl("main",
          <<TryCatch(<<CallStmt("f"), PrintStmt(StrLit(<<"try next">>))>>,
                     "e", <<PrintStmt(Ident("e"))>>),
            PrintStmt(StrLit(<<"after">>))>>)>>

\* try { throw "a" } catch (e) { throw "b" } print("after")
ThrowInCatch ==
    Main(<<TryCatch(<<ThrowStmt(StrLit(<<"a">>))>>,
                    "e", <<ThrowStmt(StrLit(<<"b">>))>>),
           PrintStmt(StrLit(<<"after">>))>>)

\* try { try { throw "in" } catch (e) { print(e) } throw "out"; print("next") }
\* catch (e2) { print(e2) } print("after")
NestedTry ==
    Main(<<TryCatch(<<TryCatch(<<ThrowStmt(StrLit(<<"in">>))>>,
                               "e", <<PrintStmt(Ident("e"))>>),
                      ThrowStmt(StrLit(<<"out">>)),
                      PrintStmt(StrLit(<<"next">>))>>,
                    "e2", <<PrintStmt(Ident("e2"))>>),
           PrintStmt(StrLit(<<"after">>))>>)

\* try { try { throw "in" } catch (e) { throw "again" } } catch (e2) { print(e2) }
RethrowNested ==
    Main(<<TryCatch(<<TryCatch(<<ThrowStmt(StrLit(<<"in">>))>>,
                               "e", <<ThrowStmt(StrLit(<<"again">>))>>)>>,
                    "e2", <<PrintStmt(Ident("e2"))>>),
           PrintStmt(StrLit(<<"after">>))>>)

\* try { throw 5 } catch (e) { print(e) }
ThrowInt ==
    Main(<<TryCatch(<<ThrowStmt(IntLit(5))>>, "e", <<PrintStmt(Ident("e"))>>)>>)

\* func f() { throw "E" }   func main() { f(); print("after") }
ThrowInCalleeNoTry ==
    <<FunctionDecl("f", <<ThrowStmt(StrLit(<<"E">>))>>),
      FunctionDecl("main", <<CallStmt("f"), PrintStmt(StrLit(<<"after">>))>>)>>

\* try { print("body") } catch (e) { print(e) } throw "late"
ThrowAfterTry ==
    Main(<<TryCatch(<<PrintStmt(StrLit(<<"body">>))>>,
                    "e", <<PrintStmt(Ident("e"))>>),
           ThrowStmt(StrLit(<<"late">>))>>)

ExcPrograms ==
    {ThrowInCallee, ThrowInCatch, NestedTry, RethrowNested, ThrowInt,
     ThrowInCalleeNoTry, ThrowAfterTry}

\* the values the switch programs switch on
SwitchValues == 0..3

\* the body of a case: print(marker), with or without a trailing break
CaseBody(marker, withBreak) ==
    IF withBreak THEN <<PrintStmt(StrLit(<<marker>>)), BreakStmt>>
    ELSE <<PrintStmt(StrLit(<<marker>>))>>

\* shape 1: case 1, case 2, default; shape 2: case 1, case 2;
\* shape 3: default, case 1, case 2
CaseLists(withBreak) ==
    LET one == CaseNode(FALSE, IntLit(1), CaseBody("one", withBreak))
        two == CaseNode(FALSE, IntLit(2), CaseBody("two", withBreak))
        dflt == CaseNode(TRUE, IntLit(0), CaseBody("default", withBreak))
    IN  <<(<<one, two, dflt>>), (<<one, two>>), (<<dflt, one, two>>)>>

\* let x: int = v; switch (x) { ... } print("after")
SwitchProgram(v, shape, withBreak) ==
    Main(<<Let("x", "int", IntLit(v)),
           SwitchStmt(Ident("x"), CaseLists(withBreak)[shape]),
           PrintStmt(StrLit(<<"after">>))>>)

SwitchPrograms ==
    {SwitchProgram(v, shape, b) : v \in SwitchValues, shape \in 1..3,
                                  b \in BOOLEAN}

\* a literal of the given source type
Lit(type, n) == IF type = "double" THEN DoubleLit(n) ELSE IntLit(n)

\* the dividends and divisors the arithmetic programs use
Dividends == {7}
Divisors == {0, 2}

\* let a: type = x; let b: type = y; print(a op b); print("after")
ArithProgram(op, type, x, y) ==
    Main(<<Let("a", type, Lit(type, x)), Let("b", type, Lit(type, y)),
           PrintStmt(BinOp(op, Ident("a"), Ident("b"))),
           PrintStmt(StrLit(<<"after">>))>>)

ArithPrograms ==
    {ArithProgram(op, type, x, y) : op \in {"/", "//", "%"},
                                    type \in {"int", "double"},
                                    x \in Dividends, y \in Divisors}

\* let x: type = a; let v: type = b; x op= v; print(x); print("after")
LocalCompound(op, type, a, b) ==
    Main(<<Let("x", type, Lit(type, a)), Let("v", type, Lit(type, b)),
           OpAssign("x", op, Ident("v")), PrintStmt(Ident("x")),
           PrintStmt(StrLit(<<"after">>))>>)

\* let x: type = a;   (module scope)
\* func main() { let v: type = b; x op= v; print(x); print("after") }
GlobalCompound(op, type, a, b) ==
    <<Let("x", type, Lit(type, a)),
      FunctionDecl("main",
          <<Let("v", type, Lit(type, b)), OpAssign("x", op, Ident("v")),
            PrintStmt(Ident("x")), PrintStmt(StrLit(<<"after">>))>>)>>

\* let x: type[2] = [a, a]; let v: type = b; x[0] op= v; print(x[0]);
\* print("after")
ElementCompound(op, type, a, b) ==
    Main(<<LetArray("x", type, 2, <<Lit(type, a), Lit(type, a)>>),
           Let("v", type, Lit(type, b)),
           ElemAssign("x", IntLit(0), op, Ident("v")),
           PrintStmt(ArrayAccess("x", IntLit(0))),
           PrintStmt(StrLit(<<"after">>))>>)

\* //= is used on int variables only
CompoundCases ==
    {<<op, type>> \in {"/=", "//=", "%="} \X {"int", "double"} :
        op = "//=" => type = "int"}

CompoundPrograms ==
    UNION {{LocalCompound(ot[1], ot[2], x, y), GlobalCompound(ot[1], ot[2], x, y),
            ElementCompound(ot[1], ot[2], x, y)} :
           ot \in CompoundCases, x \in Dividends, y \in Divisors}

\* the length of the arrays and the indices the array programs use
ArrayLen == 3
Indices == {-1, 0, 2, 3, 5}

\* let arr: type[3] = [1, 2, 3]; let i: int = k; print(arr[i]); print("after")
ArrayRead(type, k) ==
    Main(<<LetArray("arr", type, ArrayLen,
                    [j \in 1..ArrayLen |-> Lit(type, j)]),
           Let("i", "int", IntLit(k)),
           PrintStmt(ArrayAccess("arr", Ident("i"))),
           PrintStmt(StrLit(<<"after">>))>>)

\* let arr: type[3] = [1, 2, 3]; let i: int = k; arr[i] = 9; print("after")
ArrayWrite(type, k) ==
    Main(<<LetArray("arr", type, ArrayLen,
                    [j \in 1..ArrayLen |-> Lit(type, j)]),
           Let("i", "int", IntLit(k)),
           ElemAssign("arr", Ident("i"), "=", Lit(type, 9)),
           PrintStmt(StrLit(<<"after">>))>>)

ArrayPrograms ==
    UNION {{ArrayRead(type, k), ArrayWrite(type, k)} :
           type \in {"int", "double"}, k \in Indices}

\* the import statements the module programs are made of; no file C exists
Imports ==
    {Import("A", ""), Import("A", "X"), Import("A", "Y"), Import("B", ""),
     Import("B", "X"), Import("C", "")}

\* the most import statements in one program
MaxImports == 2

ImportSeqs == UNION {[1..n -> Imports] : n \in 1..MaxImports}

\* the name an import makes its module accessible by
AccessName(import) ==
    IF import.alias # "" THEN import.alias ELSE import.moduleName

\* one call q.f() per import of an existing module, in import order
RECURSIVE QualifiedCalls(_, _)
QualifiedCalls(imports, i) ==
    IF i > Len(imports) THEN <<>>
    ELSE (IF imports[i].moduleName \in DOMAIN ModuleFiles
          THEN <<QualifiedCall(AccessName(imports[i]), "f")>> ELSE <<>>)
         \o QualifiedCalls(imports, i + 1)

OwnF == FunctionDecl("f", <<PrintStmt(StrLit(<<"own f">>))>>)

\* import ...; [func f() { print("own f") }] func main() { q.f(); ...; [f();]
\* print("after") } with the importer's own f absent, declared before the
\* imports or declared after them
ModuleProgram(imports, own) ==
    (IF own = "before" THEN <<OwnF>> ELSE <<>>)
        \o imports
        \o (IF own = "after" THEN <<OwnF>> ELSE <<>>)
        \o Main(QualifiedCalls(imports, 1)
                 \o (IF own = "none" THEN <<>> ELSE <<CallStmt("f")>>)
                 \o <<PrintStmt(StrLit(<<"after">>))>>)

ModulePrograms ==
    {ModuleProgram(imports, own) :
        imports \in ImportSeqs, own \in {"none", "before", "after"}}

MemPrograms ==
    {ReassignOnce, ReassignInLoop, ReassignLiteral, ReassignAfterIf,
     ReassignAliased, PrintTemp, ThrowDynUncaught, ThrowDynCaught}

(***************************************************************************)
(* Programs with a source error, each followed by print("after")           *)
(***************************************************************************)
After == PrintStmt(StrLit(<<"after">>))

\* func main() { nope(); print("after") }
UnknownFunctionCall == Main(<<CallStmt("nope"), After>>)

\* func inc(x: int) -> int { return x }   func main() { inc(); print("after") }
ArgumentCountMismatch ==
    <<Function("inc", <<Param("x", "int")>>, "int", <<ReturnStmt(Ident("x"))>>),
      FunctionDecl("main", <<Call("inc", <<>>), After>>)>>

\* func main() { let x: int = 1; let x: int = 2; print("after") }
RedeclaredVariable ==
    Main(<<Let("x", "int", IntLit(1)), Let("x", "int", IntLit(2)), After>>)

\* func f() { print("one") }   func f() { print("two") }
\* func main() { f(); print("after") }
RedeclaredFunction ==
    <<FunctionDecl("f", <<PrintStmt(StrLit(<<"one">>))>>),
      FunctionDecl("f", <<PrintStmt(StrLit(<<"two">>))>>),
      FunctionDecl("main", <<CallStmt("f"), After>>)>>

\* func main() { break; print("after") }
BreakOutsideLoop == Main(<<BreakStmt, After>>)

\* func main() { continue; print("after") }
ContinueOutsideLoop == Main(<<ContinueStmt, After>>)

\* import Missing   func main() { print("after") }
UnresolvedImport == <<Import("Missing", ""), FunctionDecl("main", <<After>>)>>

\* func main() { print(nope); print("after") }
UndefinedVariable == Main(<<PrintStmt(Ident("nope")), After>>)

ErrorPrograms ==
    {UnknownFunctionCall, ArgumentCountMismatch, RedeclaredVariable,
     RedeclaredFunction, BreakOutsideLoop, ContinueOutsideLoop,
     UnresolvedImport, UndefinedVariable}

(***************************************************************************)
(* Programs that assign to a constant                                      *)
(***************************************************************************)
\* func main() { const k: int = 1; k = 2 (or k += 2); print(k); print("after") }
ConstLocal(stmt) ==
    Main(<<Const("k", "int", IntLit(1)), stmt, PrintStmt(Ident("k")), After>>)

\* const k: int = 1   func main() { k = 2 (or k += 2); print(k); print("after") }
ConstGlobal(stmt) ==
    <<Const("k", "int", IntLit(1)),
      FunctionDecl("main", <<stmt, PrintStmt(Ident("k")), After>>)>>

ConstAssignments == {Assign("k", IntLit(2)), OpAssign("k", "+=", IntLit(2))}

ConstAssignPrograms ==
    {ConstLocal(stmt) : stmt \in ConstAssignments}
        \cup {ConstGlobal(stmt) : stmt \in ConstAssignments}

\* a constant that is only read
ConstRead == ConstLocal(After)

ConstPrograms == ConstAssignPrograms \cup {ConstRead}

(***************************************************************************)
(* Programs with nested blocks                                             *)
(***************************************************************************)
\* func main() { { let x: int = 1; print(x) } print("after") }
UseInsideBlock ==
    Main(<<BlockStmt(<<Let("x", "int", IntLit(1)), PrintStmt(Ident("x"))>>),
           After>>)

\* func main() { { let x: int = 1 } print(x); print("after") }
UseAfterBlock ==
    Main(<<BlockStmt(<<Let("x", "int", IntLit(1))>>), PrintStmt(Ident("x")),
           After>>)

\* func main() { { let x: int = 1; print(x) } { let x: int = 2; print(x) }
\*               print("after") }
SiblingBlocks ==
    Main(<<BlockStmt(<<Let("x", "int", IntLit(1)), PrintStmt(Ident("x"))>>),
           BlockStmt(<<Let("x", "int", IntLit(2)), PrintStmt(Ident("x"))>>),
           After>>)

BlockPrograms == {UseInsideBlock, UseAfterBlock, SiblingBlocks}

(***************************************************************************)
(* Programs whose function f ends without a return statement               *)
(***************************************************************************)
\* func f() -> type { body }   func main() { print(f()); print("after") }
CallAndPrint(type, body) ==
    <<Function("f", <<>>, type, body),
      FunctionDecl("main", <<PrintStmt(Call("f", <<>>)), After>>)>>

InF == PrintStmt(StrLit(<<"in f">>))

\* f falls off its end on every path, or on the path that skips the if
FallOffBodies == {<<InF>>, <<IfStmt(Cmp, <<ReturnStmt(IntLit(7))>>, <<>>, FALSE)>>}

FallOffNonVoid ==
    {CallAndPrint(type, body) : type \in {"int", "double"}, body \in FallOffBodies}

\* func f() { print("in f") }   func main() { f(); print("after") }
FallOffVoid ==
    <<FunctionDecl("f", <<InF>>),
      FunctionDecl("main", <<CallStmt("f"), After>>)>>

\* func f() -> int { print("in f"); return 7 }
ReturnsSeven == CallAndPrint("int", <<InF, ReturnStmt(IntLit(7))>>)

FallOffPrograms == FallOffNonVoid \cup {FallOffVoid, ReturnsSeven}

(***************************************************************************)
(* Programs that coerce a value to a wider type and back                   *)
(***************************************************************************)
\* func main() { let v: t1 = e; let w: t2 = v; let u: t1 = w; print("after") }
Coercion(t1, e, t2) ==
    Main(<<Let("v", t1, e), Let("w", t2, Ident("v")), Let("u", t1, Ident("w")),
           After>>)

\* an expression whose value is the integer n: a literal, or 0 - m - 1
IntExpr(n) ==
    IF n >= 0 THEN IntLit(n)
    ELSE BinOp("-", BinOp("-", IntLit(0), IntLit(-(n + 1))), IntLit(1))

\* the values tried for each type, the extremes of the type among them
CoercionValues(type) ==
    CASE type = "bool" -> {BoolLit(FALSE), BoolLit(TRUE)}
      [] type = "char" -> {CharLit(n) : n \in {0, 65, 127, 128, 255}}
      [] type = "int" ->
           {IntExpr(n) : n \in {0, 7, -1, -7, 2147483647, -2147483647 - 1}}

\* the types wider than type in the order bool, char, int, double
WiderTypes(type) ==
    CASE type = "bool" -> {"char", "int", "double"}
      [] type = "char" -> {"int", "double"}
      [] type = "int" -> {"double"}

CoercionPrograms ==
    UNION {{Coercion(t1, e, t2) : e \in CoercionValues(t1), t2 \in WiderTypes(t1)} :
           t1 \in {"bool", "char", "int"}}

(***************************************************************************)
(* Programs with a temporary string in a condition                         *)
(***************************************************************************)
\* ("a" + "b") == "x" or ("a" + "b") != "x": a comparison of pointers
TempCompare(op) == BinOp(op, Dyn("a", "b"), StrLit(<<"x">>))

\* func main() { if (cond) { print("then") } [else { print("else") }]
\*               print("after") }
IfProgram(cond, hasElse) ==
    Main(<<IfStmt(cond, <<PrintStmt(StrLit(<<"then">>))>>,
                  IF hasElse THEN <<PrintStmt(StrLit(<<"else">>))>> ELSE <<>>,
                  hasElse),
           After>>)

\* the temporary is created by the if condition itself
TempInCondition ==
    {IfProgram(TempCompare(op), hasElse) : op \in {"==", "!="}, hasElse \in BOOLEAN}

\* the temporary is created by the right operand of && or ||
TempInRightOperand ==
    {IfProgram(BinOp(lop, BoolLit(b), TempCompare("!=")), FALSE) :
        lop \in {"&&", "||"}, b \in BOOLEAN}

\* && and || without temporaries
LogicalPrograms ==
    {IfProgram(BinOp(lop, BoolLit(b), Cmp), FALSE) :
        lop \in {"&&", "||"}, b \in BOOLEAN}

TempPrograms == TempInCondition \cup TempInRightOperand \cup LogicalPrograms

(***************************************************************************)
(* Programs with a string variable in two functions                        *)
(***************************************************************************)
\* func f() { let s: string = "a" + "b"; print(s) }
\* func main() { let name: string = "c" + "d"; print(name); f(); print("after") }
OwnedInTwoFunctions(name) ==
    <<FunctionDecl("f", <<Let("s", "string", Dyn("a", "b")),
                          PrintStmt(Ident("s"))>>),
      FunctionDecl("main", <<Let(name, "string", Dyn("c", "d")),
                             PrintStmt(Ident(name)), CallStmt("f"), After>>)>>

\* main calls its variable like the one of f, or not
OwnedPrograms == {OwnedInTwoFunctions(name) : name \in {"s", "t"}}

\* func f() -> int { return 7; print("in f") }
\* func main() { print(f()); print("after") }
ReturnThenPrint == CallAndPrint("int", <<ReturnStmt(IntLit(7)), InF>>)

\* func f() -> int { while (...) { return 7 } return 0 }
ReturnInLoop ==
    CallAndPrint("int", <<WhileStmt(Cmp, <<ReturnStmt(IntLit(7))>>),
                          ReturnStmt(IntLit(0))>>)

ReturnPrograms == {ReturnThenPrint, ReturnInLoop}

(***************************************************************************)
(* Programs with a global whose initializer names another variable         *)
(***************************************************************************)
\* let x: int = 5   let g: int = x
\* func main() { [let x: int = 1;] print(g); print("after") }
GlobalFromGlobal(shadowed) ==
    <<Let("x", "int", IntLit(5)), Let("g", "int", Ident("x")),
      FunctionDecl("main",
          (IF shadowed THEN <<Let("x", "int", IntLit(1))>> ELSE <<>>)
              \o <<PrintStmt(Ident("g")), After>>)>>

\* let g: int = y   func main() { let y: int = 1; print(g); print("after") }
GlobalFromLocal ==
    <<Let("g", "int", Ident("y")),
      FunctionDecl("main", <<Let("y", "int", IntLit(1)), PrintStmt(Ident("g")),
                             After>>)>>

GlobalInitPrograms ==
    {GlobalFromGlobal(shadowed) : shadowed \in BOOLEAN} \cup {GlobalFromLocal}

\* while (c) { switch (1) { case 1: jump } print("body") } print("after")
JumpInSwitchInLoop(jump) ==
    Main(<<WhileStmt(Cmp, <<SwitchStmt(IntLit(1),
                                       <<CaseNode(FALSE, IntLit(1), <<jump>>)>>),
                            PrintStmt(StrLit(<<"body">>))>>),
           After>>)

\* while (c) { jump; print("body") } print("after")
JumpInLoop(jump) ==
    Main(<<WhileStmt(Cmp, <<jump, PrintStmt(StrLit(<<"body">>))>>), After>>)

JumpPrograms ==
    {JumpInSwitchInLoop(jump) : jump \in {BreakStmt, ContinueStmt}}
        \cup {JumpInLoop(jump) : jump \in {BreakStmt, ContinueStmt}}

Body == PrintStmt(StrLit(<<"body">>))

\* while (nope) { print("body") } print("after")
WhileUndefinedCondition == Main(<<WhileStmt(Ident("nope"), <<Body>>), After>>)

\* switch (nope) { case 1: print("body") } print("after")
SwitchUndefinedCondition ==
    Main(<<SwitchStmt(Ident("nope"), <<CaseNode(FALSE, IntLit(1), <<Body>>)>>),
           After>>)

\* let i: int = 5; for i in 0..2 { print("body") } print("after")
ForShadowsLocal ==
    Main(<<Let("i", "int", IntLit(5)),
           ForStmt("i", IntLit(0), IntLit(2), <<Body>>), After>>)

\* for i in nope..2 { print("body") } print("after")
ForUndefinedStart ==
    Main(<<ForStmt("i", Ident("nope"), IntLit(2), <<Body>>), After>>)

\* while (nope) { print("body") } inside a loop, a switch and a try block
AbandonedInside(outer) ==
    LET inner == WhileStmt(Ident("nope"), <<Body>>)
    IN  Main(<<CASE outer = "for" -> ForStmt("i", IntLit(0), IntLit(2), <<inner>>)
                 [] outer = "switch" ->
                      SwitchStmt(IntLit(1), <<CaseNode(FALSE, IntLit(1), <<inner>>)>>)
                 [] outer = "try" -> TryCatch(<<inner>>, "e", <<Body>>),
               After>>)

\* for i in 0..2 { try { switch (i) { case 1: jump } } catch (e) { } }
\* print("after")
NestedConstructs(jump) ==
    Main(<<ForStmt("i", IntLit(0), IntLit(2),
                   <<TryCatch(<<SwitchStmt(Ident("i"),
                                           <<CaseNode(FALSE, IntLit(1), jump)>>)>>,
                              "e", <<Body>>)>>),
           After>>)

AbandonedPrograms ==
    {WhileUndefinedCondition, SwitchUndefinedCondition, ForShadowsLocal}
        \cup {AbandonedInside(outer) : outer \in {"for", "switch", "try"}}

ContextPrograms ==
    AbandonedPrograms \cup {ForUndefinedStart}
        \cup {NestedConstructs(jump) :
                 jump \in {<<Body>>, <<BreakStmt>>, <<ReturnVoid>>,
                           <<ThrowStmt(StrLit(<<"t">>))>>}}

\* func main() { let v: type = e; let b: bool = v; print("after") }
ToBoolProgram(type, e) ==
    Main(<<Let("v", type, e), Let("b", "bool", Ident("v")), After>>)

\* the values coerced to bool: zero, odd and even values of each type, and
\* the doubles 1/2, -1/2 and 5/2
ToBoolValues(type) ==
    CASE type = "char" -> {CharLit(n) : n \in {0, 1, 2, 65, 128}}
      [] type = "int" -> {IntExpr(n) : n \in {0, 1, 2, -1, -2, 256}}
      [] type = "double" ->
           {DoubleLit(n) : n \in {0, 1, 2}}
               \cup {BinOp("/", IntExpr(n), IntLit(2)) : n \in {1, -1, 5}}

ToBoolPrograms ==
    UNION {{ToBoolProgram(type, e) : e \in ToBoolValues(type)} :
           type \in {"char", "int", "double"}}

\* let q: type = x / y   func main() { print(q); print("after") }
DivisionFolded(type, x, y) ==
    <<Let("q", type, BinOp("/", IntLit(x), IntLit(y))),
      FunctionDecl("main", <<PrintStmt(Ident("q")), After>>)>>

\* func main() { let q: type = x / y; print(q); print("after") }
DivisionLowered(type, x, y) ==
    Main(<<Let("q", type, BinOp("/", IntLit(x), IntLit(y))),
           PrintStmt(Ident("q")), After>>)

QuotientTypes == {"int", "double"}

QuotientDividends == {6, 7}

QuotientDivisors == {0, 2}

DivisionPrograms ==
    {DivisionFolded(type, x, y) :
        type \in QuotientTypes, x \in QuotientDividends, y \in QuotientDivisors}
    \cup {DivisionLowered(type, x, y) :
        type \in QuotientTypes, x \in QuotientDividends, y \in QuotientDivisors}

\* the integer literals 1 .. n
Literals(n) == [j \in 1..n |-> IntLit(j)]

\* func show(x: int) { print(x) }   func main() { show(1, .., n); print("after") }
UnqualifiedCallWith(n) ==
    <<Function("show", <<Param("x", "int")>>, "void", <<PrintStmt(Ident("x"))>>),
      FunctionDecl("main", <<Call("show", Literals(n)), After>>)>>

\* import M   func main() { M.show(1, .., n); print("after") }
QualifiedCallWith(n) ==
    <<Import("M", ""),
      FunctionDecl("main",
                   <<[k |-> "call", fn |-> "show", object |-> "M",
                      args |-> Literals(n)],
                     After>>)>>

\* the numbers of arguments passed to show, which takes one
ArgumentCounts == 0..2

ArgumentCountPrograms ==
    {UnqualifiedCallWith(n) : n \in ArgumentCounts}
        \cup {QualifiedCallWith(n) : n \in ArgumentCounts}

\* func main() { let v: type = e; let a: int = v; let b: int = v + 0;
\*               print("after") }
Widening(type, e) ==
    Main(<<Let("v", type, e), Let("a", "int", Ident("v")),
           Let("b", "int", BinOp("+", Ident("v"), IntLit(0))), After>>)

WideningPrograms ==
    {Widening("bool", e) : e \in CoercionValues("bool")}
        \cup {Widening("char", e) : e \in CoercionValues("char")}

\* what the body of a for program does to n, the variable its end expression
\* reads: nothing, n = n + 1, or n = 0
EndChanges == {"none", "grow", "zero"}

\* func main() { let n: int = e; for i in s..n { print(i); [n = ...] }
\*               print("after") }
ForProgram(s, e, change) ==
    Main(<<Let("n", "int", IntLit(e)),
           ForStmt("i", IntExpr(s), Ident("n"),
                   <<PrintStmt(Ident("i"))>>
                       \o (CASE change = "none" -> <<>>
                             [] change = "grow" ->
                                  <<Assign("n", BinOp("+", Ident("n"), IntLit(1)))>>
                             [] change = "zero" -> <<Assign("n", IntLit(0))>>)),
           After>>)

\* func limit() -> int { print("limit"); return e }
\* func main() { for i in 0..limit() { print(i) } print("after") }
ForCallsLimit(e) ==
    <<Function("limit", <<>>, "int",
               <<PrintStmt(StrLit(<<"limit">>)), ReturnStmt(IntLit(e))>>),
      FunctionDecl("main", <<ForStmt("i", IntLit(0), Call("limit", <<>>),
                                     <<PrintStmt(Ident("i"))>>),
                             After>>)>>

\* the range bounds of the for programs, and the longest range run
RangeStarts == -1..2

RangeEnds == 0..2

MaxRange == 2

ForPrograms ==
    UNION {{ForProgram(s, e, change) :
               e \in {x \in RangeEnds : x - s <= MaxRange},
               change \in EndChanges} :
           s \in RangeStarts}
    \cup {ForCallsLimit(e) : e \in RangeEnds}

\* let g: int = 1
\* func main() { [print(g) | g = 5]; let g: int = 2; print(g); print("after") }
GlobalThenLocal(use) ==
    <<Let("g", "int", IntLit(1)),
      FunctionDecl("main",
                   (CASE use = "read" -> <<PrintStmt(Ident("g"))>>
                      [] use = "assign" -> <<Assign("g", IntLit(5))>>
                      [] use = "none" -> <<>>)
                   \o <<Let("g", "int", IntLit(2)), PrintStmt(Ident("g")),
                        After>>)>>

\* let i: int = 7
\* func main() { [print(i)]; for i in 0..1 { print(i) } print("after") }
GlobalThenLoopVariable(use) ==
    <<Let("i", "int", IntLit(7)),
      FunctionDecl("main",
                   (IF use = "read" THEN <<PrintStmt(Ident("i"))>> ELSE <<>>)
                   \o <<ForStmt("i", IntLit(0), IntLit(1),
                                <<PrintStmt(Ident("i"))>>),
                        After>>)>>

\* func f() { print(y) }   let y: int = 1
\* func main() { print(y); print("after") }
UndefinedThenGlobal ==
    <<FunctionDecl("f", <<PrintStmt(Ident("y"))>>),
      Let("y", "int", IntLit(1)),
      FunctionDecl("main", <<PrintStmt(Ident("y")), After>>)>>

LookupPrograms ==
    {GlobalThenLocal(use) : use \in {"read", "assign", "none"}}
        \cup {GlobalThenLoopVariable(use) : use \in {"read", "none"}}
        \cup {UndefinedThenGlobal}

\* a string literal of n characters
LongText(n) == StrLit([j \in 1..n |-> "x"])

\* func main() { try { throw "x..x" } catch (e) { print("caught") }
\*               print("after") }      (caught)
\* func main() { throw "x..x"; print("after") }      (not caught)
ThrowText(n, caught) ==
    IF caught
    THEN Main(<<TryCatch(<<ThrowStmt(LongText(n))>>, "e",
                         <<PrintStmt(StrLit(<<"caught">>))>>),
                After>>)
    ELSE Main(<<ThrowStmt(LongText(n)), After>>)

\* the lengths of the thrown texts: the longest that fits the cell with its
\* terminator, and one more
PayloadLengths == {EXCEPTION_MSG_BUFFER_SIZE - 1, EXCEPTION_MSG_BUFFER_SIZE}

ThrowTextPrograms ==
    {ThrowText(n, caught) : n \in PayloadLengths, caught \in BOOLEAN}

\* func main() { let e: int = 7; try { throw "x" } catch (name) { print(name) }
\*               print(e); print("after") }
LocalAroundCatch(name) ==
    Main(<<Let("e", "int", IntLit(7)),
           TryCatch(<<ThrowStmt(StrLit(<<"x">>))>>, name,
                    <<PrintStmt(Ident(name))>>),
           PrintStmt(Ident("e")), After>>)

\* let e: int = 1   followed by the same main
GlobalAndLocalAroundCatch(name) ==
    <<Let("e", "int", IntLit(1))>> \o LocalAroundCatch(name)

\* func main() { let e: int = 7; try { print("body") } catch { print("caught") }
\*               print(e); print("after") }
LocalAroundUnnamedCatch ==
    Main(<<Let("e", "int", IntLit(7)),
           TryCatch(<<PrintStmt(StrLit(<<"body">>))>>, "",
                    <<PrintStmt(StrLit(<<"caught">>))>>),
           PrintStmt(Ident("e")), After>>)

CatchVariables == {"e", "err"}

CatchPrograms ==
    {LocalAroundCatch(name) : name \in CatchVariables}
    \cup {GlobalAndLocalAroundCatch(name) : name \in CatchVariables}
    \cup {LocalAroundUnnamedCatch}

\* the programs above that contain a source error
UserErrorPrograms ==
    ErrorPrograms \cup ConstAssignPrograms \cup {UseAfterBlock, GlobalFromLocal}
        \cup AbandonedPrograms \cup {ForUndefinedStart}
        \cup (ArgumentCountPrograms
                  \ {UnqualifiedCallWith(1), QualifiedCallWith(1)})
        \cup {UndefinedThenGlobal}

Programs ==
    MemPrograms \cup ExcPrograms \cup SwitchPrograms \cup ArithPrograms
        \cup CompoundPrograms \cup ArrayPrograms \cup ModulePrograms
        \cup ErrorPrograms \cup ConstPrograms \cup BlockPrograms
        \cup FallOffPrograms \cup CoercionPrograms
        \cup TempPrograms \cup OwnedPrograms
        \cup ReturnPrograms \cup GlobalInitPrograms \cup JumpPrograms
        \cup ContextPrograms \cup ToBoolPrograms \cup DivisionPrograms
        \cup ArgumentCountPrograms \cup WideningPrograms \cup ForPrograms
        \cup LookupPrograms \cup ThrowTextPrograms \cup CatchPrograms

Init ==
    /\ prog \in Programs
    /\ cg = CodeGenerator
    /\ rt = Idle
    /\ phase = "parsed"

Next == Lower \/ Step \/ Fault

Spec == Init /\ [][Next]_vars

(***************************************************************************)
(* Properties                                                              *)
(***************************************************************************)
Finished == phase = "run" /\ rt.status \in {"done", "exited"}

\* C1: an allocation that a reassignment of its owning variable overwrote is
\* released exactly once: never more than once while the program runs, and
\* once by the time the program ends, reassignments in loops included
C1_ReleasedExactlyOnce ==
    /\ \A a \in 1..Len(rt.heap) : rt.heap[a].frees <= 1
    /\ Finished => \A a \in rt.displaced : rt.heap[a].frees = 1

\* C2: no instruction reads, writes or hands to a runtime routine a buffer
\* that has been released
C2_NoUseAfterRelease == ~rt.uaf

\* the uncaught-exception report of codegenThrow is about to be printed
UncaughtReport ==
    /\ phase = "run" /\ rt.status = "run"
    /\ CurrentIns(cg, rt).op = "printf"
    /\ CurrentIns(cg, rt).aux = "Uncaught exception: %s\\n"

\* a throw is about to restore a saved context
AtLongjmp ==
    phase = "run" /\ rt.status = "run" /\ CurrentIns(cg, rt).op = "longjmp"

\* the try bodies in execution in the running function
TriesHere == SelectSeq(rt.tries, LAMBDA e : e.depth = Len(rt.stack))

\* the try bodies in execution in the callers of the running function
TriesOfCallers == SelectSeq(rt.tries, LAMBDA e : e.depth < Len(rt.stack))

\* C8: an exception thrown in a function called from inside a try block of
\* its caller reaches the caller's catch clause: it is never reported as
\* uncaught while a caller is executing a try body
C8_CallerCatches == UncaughtReport => TriesOfCallers = <<>>

\* C9: a throw never continues with the statement after it; with an
\* enclosing try it resumes in the catch block of the innermost enclosing
\* try with the thrown text in the exception cell, and without one it
\* reports the uncaught exception (and then terminates)
C9_ThrowTransfersControl ==
    /\ phase = "run" => cg.blocks[Top(rt).b].label # "after_throw"
    /\ AtLongjmp =>
         /\ TriesHere # <<>>
         /\ Has(Top(rt).jmps, CurrentIns(cg, rt).aux)
         /\ CatchOf(cg, Top(rt).jmps[CurrentIns(cg, rt).aux].b)
                = Last(TriesHere).catch
         /\ rt.excmsg # <<>>
    /\ UncaughtReport => TriesHere = <<>>

\* programs of the form: let x = v; switch (x) { ... } print("after")
IsSwitchProgram(p) ==
    /\ Len(p) = 1
    /\ Len(p[1].body) = 3
    /\ p[1].body[2].k = "switch"

SwitchInput(p) == p[1].body[1].e.n

\* what the case list must print for value v: the body of the case whose
\* constant is v, else the body of the default, else nothing
CaseOutput(caseList, v) ==
    LET hit == {i \in 1..Len(caseList) :
                  ~caseList[i].isDefault /\ caseList[i].value.n = v}
        dflt == {i \in 1..Len(caseList) : caseList[i].isDefault}
        chosen == IF hit # {} THEN hit ELSE dflt
    IN  IF chosen = {} THEN <<>>
        ELSE <<caseList[CHOOSE i \in chosen : TRUE].body[1].e.t>>

Printed == [i \in 1..Len(rt.out) |-> rt.out[i].txt]

\* C10: a switch runs exactly the body of the case whose constant equals the
\* switch value, the default body only when no case matches, and nothing of
\* the switch when there is neither; then the statement after the switch
C10_SwitchRunsMatchingCase ==
    (Finished /\ IsSwitchProgram(prog)) =>
        Printed = CaseOutput(prog[1].body[2].caseList, SwitchInput(prog))
                      \o <<(<<"after">>)>>

\* value 2 selected case 2 among case 1, case 2 and a default
C10_Witness ==
    /\ Finished /\ IsSwitchProgram(prog)
    /\ SwitchInput(prog) = 2
    /\ Len(prog[1].body[2].caseList) = 3
    /\ Printed = <<(<<"two">>), (<<"after">>)>>

\* the body of main, the last declaration of every program
MainBody(p) == p[Len(p)].body

\* what the run has printed: format and text of every printf
Output == [i \in 1..Len(rt.out) |-> <<rt.out[i].k, rt.out[i].txt>>]

AfterLine == <<"%s\n", <<"after">>>>

\* programs of the form: let a; let b; print(a op b); print("after")
IsArithProgram(p) ==
    /\ Len(MainBody(p)) = 4
    /\ MainBody(p)[3].k = "print"
    /\ MainBody(p)[3].e.k = "bin"
    /\ MainBody(p)[3].e.op \in {"/", "//", "%"}

\* operator, operand type and divisor of an arithmetic program
ArithOp(p) == MainBody(p)[3].e.op
ArithType(p) == MainBody(p)[1].type
ArithDivisor(p) == MainBody(p)[2].e.n

\* the diagnostic, and the printed line of the safe default, that go with
\* a zero divisor: 0 for the integer results, NaN for the float results
ZeroDiagnostic(op) ==
    CASE op = "/" -> "Runtime Error: Division by zero\n"
      [] op = "//" -> "Runtime Error: Integer division by zero\n"
      [] op = "%" -> "Runtime Error: Modulo by zero\n"
      [] op = "/=" -> "Runtime Error: Division by zero in /= operator\n"
      [] op = "//=" -> "Runtime Error: Integer division by zero in //= operator\n"
      [] OTHER -> "Runtime Error: Modulo by zero in %= operator\n"

SafeDefault(isFloat) ==
    IF isFloat THEN <<"%f\n", <<"nan">>>> ELSE <<"%d\n", <<"0">>>>

IsCompoundProgram(p) ==
    /\ Len(MainBody(p)) \in {4, 5}
    /\ MainBody(p)[Len(MainBody(p)) - 2].k \in {"assign", "elemassign"}
    /\ MainBody(p)[Len(MainBody(p)) - 2].op \in {"/=", "//=", "%="}

CompoundOperator(p) == MainBody(p)[Len(MainBody(p)) - 2].op
CompoundType(p) == MainBody(p)[Len(MainBody(p)) - 3].type
CompoundDivisor(p) == MainBody(p)[Len(MainBody(p)) - 3].e.n

\* C5: x /= v, x //= v and x %= v with v = 0 on a local, a global or an
\* array element print the diagnostic, store 0 (int) or NaN (float) and go
\* on with the next statement
C5_CompoundZeroGuarded ==
    (phase = "run" /\ IsCompoundProgram(prog) /\ CompoundDivisor(prog) = 0) =>
        /\ ~rt.divz
        /\ rt.status # "crashed" /\ rt.status # "exited"
        /\ rt.status = "done" =>
             Output = <<(<<ZeroDiagnostic(CompoundOperator(prog)), <<>>>>),
                        SafeDefault(CompoundType(prog) = "double"),
                        AfterLine>>

\* programs of the form: let arr = [...]; let i = k; <access arr[i]>; ...
IsArrayProgram(p) ==
    /\ Len(MainBody(p)) \in {4, 5}
    /\ MainBody(p)[1].k = "letarray"
    /\ MainBody(p)[2].name = "i"

ArrayIndex(p) == MainBody(p)[2].e.n

IndexOutside(p) == ArrayIndex(p) < 0 \/ ArrayIndex(p) >= MainBody(p)[1].size

\* C3: an array access with an index below 0 or not below the length
\* touches no memory outside the array; a read yields the zero value of the
\* element type after the diagnostic
C3_NoAccessOutsideArray ==
    (phase = "run" /\ IsArrayProgram(prog) /\ IndexOutside(prog)) =>
        /\ ~rt.oob
        /\ (rt.status = "done" /\ MainBody(prog)[3].k = "print") =>
             Output = <<(<<"Runtime Error: Array index out of bounds\n", <<>>>>),
                        (IF MainBody(prog)[1].type = "double"
                         THEN <<"%f\n", <<"0", "/", "1">>>>
                         ELSE <<"%d\n", <<"0">>>>),
                        AfterLine>>

\* programs with at least one import statement
IsModuleProgram(p) == \E i \in 1..Len(p) : p[i].k = "import"

\* the module the name q stands for in main: the one of the last import
\* that made a module accessible by q
ModuleOf(p, q) ==
    LET binds == {i \in 1..Len(p) : /\ p[i].k = "import"
                                    /\ p[i].moduleName \in DOMAIN ModuleFiles
                                    /\ AccessName(p[i]) = q}
    IN  p[CHOOSE i \in binds : \A j \in binds : j <= i].moduleName

\* the text printed by the function f that top-level unit declares
TextOfF(decls) ==
    LET i == CHOOSE i \in 1..Len(decls) :
                 decls[i].k = "func" /\ decls[i].name = "f"
    IN  decls[i].body[1].e.t

\* what main must print: M.f() runs the f of module M, f() the importer's
ExpectedCalls(p) ==
    [i \in 1..Len(MainBody(p)) |->
        LET call == MainBody(p)[i]
        IN  IF call.k = "print" THEN call.e.t
            ELSE IF call.object = "" THEN TextOfF(p)
            ELSE TextOfF(ModuleFiles[ModuleOf(p, call.object)])]

\* C6: a module's declarations live in the module's namespace: no
\* declaration of f is refused as a redefinition, M.f() invokes the f of
\* module M and f() invokes the importer's f
C6_ModuleNamespaceSeparate ==
    (phase = "run" /\ IsModuleProgram(prog)) =>
        /\ \A i \in 1..Len(cg.diag) : cg.diag[i] # "Function is already defined"
        /\ rt.status = "done" => Printed = ExpectedCalls(prog)

\* the modules the program imports and that exist
ImportedModules(p) ==
    {p[i].moduleName : i \in {j \in 1..Len(p) : p[j].k = "import"}}
        \cap DOMAIN ModuleFiles

\* how many times code was generated for declaration name of module m
TimesLowered(m, name) ==
    Cardinality({i \in 1..Len(cg.lowered) : cg.lowered[i] = <<m, name>>})

\* C7: whatever the import statements of the compilation, code is generated
\* exactly once for every top-level function and global of every module
\* they name
C7_ModuleLoweredOnce ==
    (phase # "parsed" /\ IsModuleProgram(prog)) =>
        \A m \in ImportedModules(prog) :
            \A j \in 1..Len(ModuleFiles[m]) :
                TimesLowered(m, ModuleFiles[m][j].name) = 1

\* the length of the longest block
MaxBlockLen(c) ==
    LET lens == {Len(c.blocks[b].ins) : b \in 1..Len(c.blocks)}
    IN  IF lens = {} THEN 0 ELSE CHOOSE n \in lens : \A k \in lens : k <= n

\* the emitted code contains the call of printf that prints text
EmitsPrintOf(c, text) ==
    \E b \in 1..Len(c.blocks) : \E i \in 1..Len(c.blocks[b].ins) :
        /\ c.blocks[b].ins[i].op = "printf"
        /\ \E a \in 1..Len(c.blocks[b].ins[i].args) :
               /\ c.blocks[b].ins[i].args[a].v = "gstr"
               /\ c.blocks[b].ins[i].args[a].s = text

IsErrorProgram(p) == p \in ErrorPrograms

\* C11: a source error (unknown function, wrong number of arguments,
\* redeclaration, break or continue outside a loop, unresolved name or
\* import) is counted, the statements after it are still lowered, and
\* generation fails so that no code is accepted for the program
C11_SourceErrorsCounted ==
    (phase # "parsed" /\ IsErrorProgram(prog)) =>
        /\ cg.errorCount > 0
        /\ EmitsPrintOf(cg, <<"after">>)
        /\ phase = "rejected"

\* the positions of the instructions op that write to slot (an alloca or
\* a GlobalVariable)
StoresInto(c, op, slot) ==
    {<<b, i>> \in (1..Len(c.blocks)) \X (1..MaxBlockLen(c)) :
        /\ i <= Len(c.blocks[b].ins)
        /\ c.blocks[b].ins[i].op = op
        /\ c.blocks[b].ins[i].aux = slot}

\* C12: an assignment, plain or compound, to a variable declared const is
\* rejected with an error, and no store to the variable is emitted: a local
\* constant is written by its initialiser only, a global one never
C12_ConstAssignmentRejected ==
    (phase # "parsed" /\ prog \in ConstAssignPrograms) =>
        /\ cg.errorCount > 0
        /\ Has(cg.namedValues, "k") =>
               Cardinality(StoresInto(cg, "store", cg.namedValues["k"])) <= 1
        /\ Has(cg.globalValues, "k") =>
               StoresInto(cg, "gstore", cg.globalValues["k"]) = {}

\* the output line of print(n) for an integer n
IntLine(n) == <<"%d\n", <<ToString(n)>>>>

\* the diagnostic msg was written while lowering
Reported(c, msg) == \E i \in 1..Len(c.diag) : c.diag[i] = msg

\* C13: a local declared in a nested block is visible until the end of that
\* block only: a reference after the block is an undefined-variable error,
\* and a later sibling block can declare the name again
C13_BlockScoped ==
    /\ (phase # "parsed" /\ prog = UseAfterBlock) =>
           /\ Reported(cg, "Undefined variable")
           /\ phase = "rejected"
    /\ (phase # "parsed" /\ prog = SiblingBlocks) =>
           /\ ~Reported(cg, "Local variable is already defined in this scope")
           /\ Finished => Output = <<IntLine(1), IntLine(2), AfterLine>>
    /\ (Finished /\ prog = UseInsideBlock) => Output = <<IntLine(1), AfterLine>>

\* the output line of print(v) for the whole number v of an arithmetic type
NumberLine(type, v) ==
    IF type = "double" THEN <<"%f\n", <<ToString(v), "/", "1">>>>
    ELSE IntLine(v)

\* the line that print(f()) wrote in main
PrintedResult == Output[Len(Output) - 1]

\* C14: when control falls off the end of a non-void function, the function
\* returns the zero value of its return type and a warning is counted; a
\* void function that falls off its end returns without a warning
C14_FallOffReturnsZero ==
    /\ (phase # "parsed" /\ prog \in FallOffNonVoid) =>
           /\ phase = "run"
           /\ cg.warningCount > 0
           /\ Finished =>
                  PrintedResult =
                      NumberLine(prog[1].returnType,
                                 IF rt.trues = 0 THEN 0 ELSE 7)
    /\ (phase # "parsed" /\ prog = FallOffVoid) =>
           /\ phase = "run"
           /\ cg.warningCount = 0
           /\ Finished => Output = <<<<"%s\n", <<"in f">>>>, AfterLine>>

\* the part of C14 that the code satisfies: the zero value is returned
ReturnsZeroValue ==
    (Finished /\ prog \in FallOffNonVoid) =>
        PrintedResult =
            NumberLine(prog[1].returnType, IF rt.trues = 0 THEN 0 ELSE 7)

\* the content of the slot of local variable name of the running function
SlotOf(name) == Top(rt).slots[cg.namedValues[name]]

\* main of a coercion program has stored v, w and u
CoercionDone ==
    /\ phase = "run" /\ rt.status = "run"
    /\ prog \in CoercionPrograms
    /\ Has(Top(rt).slots, cg.namedValues["u"])

\* C15: a value of type T1 coerced to a wider type T2 (in the order bool,
\* char, int, double) and coerced back to T1 is exactly the original value
C15_WidenThenNarrowExact ==
    CoercionDone =>
        /\ SlotOf("v").p = "int"
        /\ SlotOf("w").p \in {"int", "double"}
        /\ SlotOf("u") = SlotOf("v")

\* the character 255 went to double and came back
C15_Witness ==
    /\ CoercionDone
    /\ prog = Coercion("char", CharLit(255), "double")
    /\ SlotOf("w") = Double(255, 1)
    /\ SlotOf("u") = RV("int", 255, <<>>)

\* the statement print("after") that follows the if statement is reached
AtAfter ==
    /\ phase = "run" /\ rt.status = "run"
    /\ CurrentIns(cg, rt).op = "printf"
    /\ CurrentIns(cg, rt).args # <<>>
    /\ CurrentIns(cg, rt).args[1] = GlobalStr(<<"after">>)

\* C16: on every path of the generated program a temporary that no
\* variable took over is released exactly once, by the first
\* synchronization point after its allocation: never twice, and once when
\* the statement that created it has ended, temporaries of an if condition
\* and of the right operand of && and || included
C16_TemporaryReleasedOnce ==
    (phase = "run" /\ prog \in TempInCondition \cup TempInRightOperand) =>
        /\ \A a \in 1..Len(rt.heap) : rt.heap[a].frees <= 1
        /\ (AtAfter \/ Finished) =>
               \A a \in 1..Len(rt.heap) : rt.heap[a].frees = 1

\* the instructions that use a value defined in another function:
\* <<block, index>>
CrossFunctionUses(c) ==
    {<<b, i>> \in (1..Len(c.blocks)) \X (1..MaxBlockLen(c)) :
        /\ i <= Len(c.blocks[b].ins)
        /\ \E j \in 1..Len(c.blocks[b].ins[i].args) :
               /\ c.blocks[b].ins[i].args[j].v = "inst"
               /\ DefSite(c, c.blocks[b].ins[i].args[j].n)[1] # 0
               /\ c.blocks[DefSite(c, c.blocks[b].ins[i].args[j].n)[1]].fn
                      # c.blocks[b].fn}

\* C17: when the lowering of a function body starts, the temporary LIFO,
\* the owned-allocation map, the loop-context stack and the
\* exception-context stack are empty, and no instruction of a function
\* uses a value created while lowering another function
C17_FreshTablesPerFunction ==
    phase # "parsed" =>
        /\ \A i \in 1..Len(cg.entered) :
               /\ cg.entered[i].tempMemoryStack = <<>>
               /\ cg.entered[i].ownedStringMemory = EmptyMap
               /\ cg.entered[i].loopContextStack = <<>>
               /\ cg.entered[i].exceptionContextStack = <<>>
        /\ CrossFunctionUses(cg) = {}

\* C18: the module lowered from a program without source error is well
\* formed: every block ends with its only terminator, and every value an
\* instruction uses, the pointers handed to free included, is defined on
\* every path to the instruction
C18_ModuleWellFormed ==
    (phase # "parsed" /\ prog \notin UserErrorPrograms /\ cg.diag = <<>>) =>
        verifyModule(cg)

\* the loads and stores in a function other than the one the slot belongs
\* to: <<block, index>>
ForeignSlotUses(c) ==
    {<<b, i>> \in (1..Len(c.blocks)) \X (1..MaxBlockLen(c)) :
        /\ i <= Len(c.blocks[b].ins)
        /\ c.blocks[b].ins[i].op \in {"load", "store"}
        /\ c.allocas[c.blocks[b].ins[i].aux].fn # c.blocks[b].fn}

\* C19: the local bindings of a function are discarded when its lowering
\* finishes: code lowered afterwards outside the function, the deferred
\* global initializers included, resolves names against globals only and
\* never uses a local slot of a function lowered before; so a global
\* initialised from global x gets the value of global x
C19_LocalsDiscardedAtExit ==
    /\ phase # "parsed" => ForeignSlotUses(cg) = {}
    /\ (phase # "parsed" /\ prog = GlobalFromLocal) =>
           Reported(cg, "Undefined variable")
    /\ (phase # "parsed" /\ prog \in GlobalInitPrograms \ {GlobalFromLocal}) =>
           /\ phase = "run"
           /\ Finished => Output = <<IntLine(5), AfterLine>>

\* the catch blocks of the try bodies in execution in the running function
OpenCatchBlocks == {TriesHere[k].catch : k \in 1..Len(TriesHere)}

\* C20: the exception context of a try is popped when its try block is
\* exited: a throw restores only the context of a try whose body is still
\* in execution, so a throw in a catch body goes to the next enclosing try
\* or to the uncaught path, never to the try whose catch body is running
C20_ContextPoppedAtTryExit ==
    AtLongjmp =>
        /\ Has(Top(rt).jmps, CurrentIns(cg, rt).aux)
        /\ CatchOf(cg, Top(rt).jmps[CurrentIns(cg, rt).aux].b) \in OpenCatchBlocks

\* the branches of block b of the module that leave for no block of the
\* function they are in
DanglingBranches(c, b) ==
    {i \in 1..Len(c.blocks[b].ins) :
        /\ c.blocks[b].ins[i].op = "br"
        /\ \E j \in 1..Len(c.blocks[b].ins[i].tgt) :
               \/ c.blocks[b].ins[i].tgt[j] \notin 1..Len(c.blocks)
               \/ c.blocks[c.blocks[b].ins[i].tgt[j]].fn # c.blocks[b].fn}

\* C21: a break or continue inside a loop or switch branches to an existing
\* block: break leaves the innermost loop or switch, continue goes on with
\* the next iteration of the innermost loop, also from inside a switch in
\* the loop
C21_JumpTargetsExist ==
    /\ (phase # "parsed" /\ prog \in JumpPrograms) =>
           /\ \A b \in 1..Len(cg.blocks) : DanglingBranches(cg, b) = {}
           /\ phase = "run"
    /\ (Finished /\ prog \in JumpPrograms) =>
           /\ Printed[Len(Printed)] = <<"after">>
           /\ prog = JumpInLoop(BreakStmt) => Printed = <<(<<"after">>)>>
           /\ prog \in {JumpInLoop(ContinueStmt),
                        JumpInSwitchInLoop(ContinueStmt)} =>
                  Printed = <<(<<"after">>)>>

\* the while, for, switch and try/catch statements lowered so far that left
\* one of the two context stacks different from what it was before them
Unmatched(c) ==
    {i \in 1..Len(c.constructs) :
        \/ c.constructs[i].loopAfter # c.constructs[i].loopBefore
        \/ c.constructs[i].excAfter # c.constructs[i].excBefore}

\* C22: lowering a while, for, switch or try/catch statement leaves the loop
\* context stack and the exception context stack as they were before the
\* statement, also when the statement is given up on an error
C22_ContextStacksRestored ==
    phase \in {"run", "rejected"} =>
        /\ Unmatched(cg) = {}
        /\ cg.loopContextStack = <<>>
        /\ cg.exceptionContextStack = <<>>

\* a while loop given up on its undefined condition inside a try block: both
\* statements were lowered, and the error was reported
C22_Witness ==
    /\ phase = "rejected"
    /\ prog = AbandonedInside("try")
    /\ Reported(cg, "Undefined variable")
    /\ Len(cg.constructs) = 2
    /\ cg.constructs[1].k = "while"
    /\ cg.constructs[1].excBefore # <<>>

\* main of a conversion-to-bool program has stored v and b
ToBoolDone ==
    /\ phase = "run" /\ rt.status = "run"
    /\ prog \in ToBoolPrograms
    /\ Has(Top(rt).slots, cg.namedValues["b"])

\* C23: a char, int or double value coerced to bool is true exactly when it
\* is not equal to zero; non-zero even integers and doubles of magnitude
\* below 1 are true
C23_ToBoolIsNonZero ==
    ToBoolDone =>
        SlotOf("b") = RV("int", IF SlotOf("v").a # 0 THEN 1 ELSE 0, <<>>)

\* the declaration let q: type = x / y of a division program
DivisionDecl(p) == IF p[1].k = "let" THEN p[1] ELSE p[1].body[1]

\* what a division program prints: the floating-point quotient of x and y
\* converted to the declared type; for a zero divisor the report of the
\* division guard and then the value the guard yields
PrintsQuotient(type, x, y) ==
    /\ Output[Len(Output)] = AfterLine
    /\ IF y # 0
       THEN /\ Len(Output) = 2
            /\ Output[1] = IF type = "double"
                           THEN <<"%f\n", Show(Double(x, y))>>
                           ELSE IntLine(TruncDiv(x, y))
       ELSE /\ Len(Output) = 3
            /\ Output[1] = <<"Runtime Error: Division by zero\n", <<>>>>
            /\ type = "double" => Output[2] = <<"%f\n", <<"nan">>>>

\* C24: x / y on two integer literals is their floating-point quotient, and
\* the same value whether it is folded into the initializer of a
\* module-scope variable or computed by the code of a function, a zero
\* divisor included
C24_FoldedQuotientAgrees ==
    (phase # "parsed" /\ prog \in DivisionPrograms) =>
        /\ phase = "run"
        /\ Finished =>
               PrintsQuotient(DivisionDecl(prog).type, DivisionDecl(prog).e.l.n,
                              DivisionDecl(prog).e.r.n)

\* the calls of function fn in the emitted code, as <<block, index>>
CallsOf(c, fn) ==
    {bi \in UNION {{<<b, i>> : i \in 1..Len(c.blocks[b].ins)} :
                   b \in 1..Len(c.blocks)} :
        /\ c.blocks[bi[1]].ins[bi[2]].op = "call"
        /\ c.blocks[bi[1]].ins[bi[2]].aux = fn}

\* the number of arguments the call in main of an argument-count program passes
ArgumentsPassed(p) == Len(p[Len(p)].body[1].args)

\* C25: a call of a function of fixed arity with another number of arguments
\* than it has parameters is reported as an argument-count error and no call
\* instruction is emitted, for f(..) and for module.f(..) alike; with the
\* right number the call is emitted and runs
C25_ArgumentCountChecked ==
    /\ (phase # "parsed" /\ prog \in ArgumentCountPrograms
            /\ ArgumentsPassed(prog) # 1) =>
           /\ Reported(cg, "Function expects a different number of arguments")
           /\ CallsOf(cg, "show") = {}
    /\ (phase # "parsed" /\ prog \in ArgumentCountPrograms
            /\ ArgumentsPassed(prog) = 1) =>
           /\ phase = "run"
           /\ Finished => Output = <<IntLine(1), AfterLine>>

\* main of a widening program has stored v, a and b
WideningDone ==
    /\ phase = "run" /\ rt.status = "run"
    /\ prog \in WideningPrograms
    /\ Has(Top(rt).slots, cg.namedValues["b"])

\* C26: a bool or char value widened to int is zero-extended, by a coercion
\* and by the operand promotion of a binary operator alike: a char with its
\* high bit set becomes the same value in 128..255 on both routes
C26_WideningZeroExtends ==
    WideningDone =>
        /\ SlotOf("a") = RV("int", SlotOf("v").a, <<>>)
        /\ SlotOf("b") = SlotOf("a")

\* the for statement of a for program, and the value of its start expression
ForOf(p) == MainBody(p)[Len(MainBody(p)) - 1]

RangeStart(p) == IF ForOf(p).start.k = "int" THEN ForOf(p).start.n ELSE -1

\* the value of the end expression when the loop is entered
RangeEnd(p) ==
    IF ForOf(p).end.k = "id" THEN MainBody(p)[1].e.n ELSE p[1].body[2].e.n

\* the lines print(i) writes for i = s, s + 1, .., e - 1
RECURSIVE RangeLines(_, _)
RangeLines(s, e) == IF s >= e THEN <<>> ELSE <<IntLine(s)>> \o RangeLines(s + 1, e)

\* C27: for i in s..e evaluates e once, before the first iteration, and runs
\* its body for i = s, s + 1, .., e - 1 in this order (not at all when
\* s >= e), also when the body assigns to the variable that e reads
C27_ForRunsHalfOpenRange ==
    /\ (phase # "parsed" /\ prog \in ForPrograms) => phase = "run"
    /\ (Finished /\ prog \in ForPrograms) =>
           Output = (IF ForOf(prog).end.k = "call"
                     THEN <<(<<"%s\n", <<"limit">>>>)>> ELSE <<>>)
                    \o RangeLines(RangeStart(prog), RangeEnd(prog))
                    \o <<AfterLine>>

\* the loop over 0..2 ended after two iterations although its body set the
\* variable of the end expression to 0
C27_Witness ==
    /\ Finished
    /\ prog = ForProgram(0, 2, "zero")
    /\ Output = <<IntLine(0), IntLine(1), AfterLine>>
    /\ rt.globals = <<>>

\* the names a symbol table holds without a variable behind them
NullEntries(table) == {name \in DOMAIN table : table[name] = 0}

\* C28: evaluating an identifier or resolving the target of an assignment
\* adds no entry to the local or global symbol table: after a global was
\* read or assigned in a function, or an undefined name was read, a local
\* variable, a loop variable or a global of that name can still be declared
C28_LookupLeavesTablesAlone ==
    (phase # "parsed" /\ prog \in LookupPrograms) =>
        /\ NullEntries(cg.namedValues) = {}
        /\ NullEntries(cg.globalValues) = {}
        /\ ~Reported(cg, "Local variable is already defined in this scope")
        /\ ~Reported(cg, "For loop variable shadows an existing local variable")
        /\ ~Reported(cg, "Global variable is already defined")
        /\ prog # UndefinedThenGlobal => phase = "run"
        /\ (Finished /\ prog = GlobalThenLocal("read")) =>
               Output = <<IntLine(1), IntLine(2), AfterLine>>
        /\ (Finished /\ prog = GlobalThenLoopVariable("read")) =>
               Output = <<IntLine(7), IntLine(0), AfterLine>>

\* C29: the copy of a thrown text into the exception message cell never
\* writes more than the 256 bytes of the cell, the terminator included,
\* however long the text is
C29_ThrowCopyFitsCell == phase = "run" => ~rt.overrun

\* the try/catch statements lowered so far after which a local that existed
\* before the try is gone or bound to other storage
Rebound ==
    {i \in 1..Len(cg.constructs) :
        /\ cg.constructs[i].k = "try"
        /\ \E name \in DOMAIN cg.constructs[i].namedBefore :
              \/ ~Has(cg.constructs[i].namedAfter, name)
              \/ cg.constructs[i].namedAfter[name]
                     # cg.constructs[i].namedBefore[name]}

\* C30: lowering a try/catch statement changes no binding but the temporary
\* one of the catch variable: every local that existed before the try, one
\* named like the catch variable included, resolves to its own storage
\* after the catch body
C30_TryCatchKeepsBindings == phase # "parsed" => Rebound = {}

====
